---- MODULE Spec2Model ----
(***************************************************************************)
(* Model of backend/continuous_executor.py (class ContinuousExecutor):     *)
(* the graph compiler (_topological_sort), the input resolver              *)
(* (_prepare_node_inputs_optimized), the plan cache (_setup_execution),    *)
(* the single pass (_execute_workflow_once_optimized) and the continuous   *)
(* scheduler (start/stop/_execution_loop), with the caller's thread and    *)
(* the worker threads interleaved.                                         *)
(***************************************************************************)
EXTENDS Integers, Sequences, FiniteSets, TLC

\* ------------------------------------------------------------------ bounds
\* Number of worker threads that may ever be launched.
MaxWorkers == 2
\* Cap on count_of_iterations: no iteration begins at or above it.
MaxIter == 2
\* Number of administrative calls the caller makes.
MaxCalls == 4
\* Longest edge list given to _topological_sort in SpecSort.
MaxSortEdges == 3
\* Longest edge list given to the input resolver in SpecInputs.
MaxPrepEdges == 2
\* Number of log_message calls made in SpecLog.
MaxLogs == 102

Range(f) == {f[i] : i \in DOMAIN f}

\* The iteration orders a Python set with the elements S can have.
SetOrders(S) == {f \in [1..Cardinality(S) -> S] : Range(f) = S}

\* ------------------------------------------------------------------ values
\* A node output / input value: a scalar, a tuple of scalars, a dict from
\* keys to scalars, or None. One record shape for all kinds; a dict is a
\* function over DictKeys with -1 for "key not present".
DictKeys == {"output", "k"}
NoDict == [key \in DictKeys |-> -1]
Scalar(n) == [k |-> "scalar", s |-> n, t |-> <<>>, d |-> NoDict]
TupleV(seq) == [k |-> "tuple", s |-> 0, t |-> seq, d |-> NoDict]
DictV(f) == [k |-> "dict", s |-> 0, t |-> <<>>, d |-> f]
NoneV == [k |-> "none", s |-> 0, t |-> <<>>, d |-> NoDict]
\* An element of a tuple as a value; -1 stands for the element None.
Elem(n) == IF n = -1 THEN NoneV ELSE Scalar(n)

\* An entry of nodeInfo.input_types: ["TYPE", {"default": v}] or ["TYPE", {}].
WithDefault(v) == [has |-> TRUE, val |-> v]
NoDefault == [has |-> FALSE, val |-> NoneV]

Edge(s, sh, t, th) == [source |-> s, sourceHandle |-> sh, target |-> t, targetHandle |-> th]

EmptyMap == [h \in {} |-> NoneV]

\* ------------------------------------------------------- _topological_sort
NodeIdsOf(nodes) == {nodes[i].id : i \in DOMAIN nodes}

\* line 311: the edge is kept only when both endpoints are node ids
\* An edge test that looks at the target only.
ValidEdgeTargetOnly(e, node_ids) == e.target \in node_ids

ValidEdge(e, node_ids) == e.source \in node_ids /\ e.target \in node_ids

\* lines 298-313: in_degree[n] after the edge loop
InDegree(edges, node_ids) ==
    [n \in node_ids |->
        Cardinality({i \in DOMAIN edges :
            ValidEdge(edges[i], node_ids) /\ edges[i].target = n})]

\* lines 297, 308-312: graph[s], the targets of s in edge-list order
Adjacency(edges, node_ids, s) ==
    LET Out(e) == ValidEdge(e, node_ids) /\ e.source = s
        sel == SelectSeq(edges, Out)
    IN  [i \in DOMAIN sel |-> sel[i].target]

\* A slip in the ready test: a neighbour is queued one decrement early too.
RECURSIVE RelaxEarly(_, _, _)
RelaxEarly(nbrs, indeg, queue) ==
    IF nbrs = <<>> THEN [indeg |-> indeg, queue |-> queue]
    ELSE LET n == Head(nbrs)
             d == [indeg EXCEPT ![n] = @ - 1]
         IN  RelaxEarly(Tail(nbrs), d, IF d[n] \in {0, 1} THEN Append(queue, n) ELSE queue)

\* lines 323-326: decrement each neighbour, queue it when it reaches zero
RECURSIVE Relax(_, _, _)
Relax(nbrs, indeg, queue) ==
    IF nbrs = <<>> THEN [indeg |-> indeg, queue |-> queue]
    ELSE LET n == Head(nbrs)
             d == [indeg EXCEPT ![n] = @ - 1]
         IN  Relax(Tail(nbrs), d, IF d[n] = 0 THEN Append(queue, n) ELSE queue)

\* lines 319-326: Kahn's loop
RECURSIVE Kahn(_, _, _, _, _)
Kahn(queue, result, indeg, edges, node_ids) ==
    IF queue = <<>> THEN result
    ELSE LET current == Head(queue)
             r == Relax(Adjacency(edges, node_ids, current), indeg, Tail(queue))
         IN  Kahn(r.queue, Append(result, current), r.indeg, edges, node_ids)

\* A slip in the error report: the failure names every node of the graph.
TopologicalSortNamingAll(nodes, edges, iter) ==
    LET node_ids == NodeIdsOf(nodes)
        in_degree == InDegree(edges, node_ids)
        Ready(n) == in_degree[n] = 0
        result == Kahn(SelectSeq(iter, Ready), <<>>, in_degree, edges, node_ids)
    IN  IF Len(result) # Cardinality(node_ids)
        THEN [ok |-> FALSE, order |-> <<>>, remaining |-> node_ids]
        ELSE [ok |-> TRUE, order |-> result, remaining |-> {}]

\* lines 294-333. iter is the iteration order of the set node_ids (line 316).
\* ok = FALSE stands for the ValueError of line 331.
TopologicalSort(nodes, edges, iter) ==
    LET node_ids == NodeIdsOf(nodes)
        in_degree == InDegree(edges, node_ids)
        Ready(n) == in_degree[n] = 0
        result == Kahn(SelectSeq(iter, Ready), <<>>, in_degree, edges, node_ids)
    IN  IF Len(result) # Cardinality(node_ids)
        THEN [ok |-> FALSE, order |-> <<>>, remaining |-> node_ids \ Range(result)]
        ELSE [ok |-> TRUE, order |-> result, remaining |-> {}]

\* ------------------------------------------- _prepare_node_inputs_optimized
\* line 396: source_handle.startswith("output-")
IndexedHandles == {"output-0", "output-1", "output-2", "output-x"}
\* line 397: int(source_handle.split("-")[1]); -1 stands for the ValueError
\* int() raises on a non-numeric suffix
HandleIndex(h) ==
    CASE h = "output-0" -> 0
      [] h = "output-1" -> 1
      [] h = "output-2" -> 2
      [] OTHER -> -1

Put(inputs, h, v) == [x \in DOMAIN inputs \cup {h} |-> IF x = h THEN v ELSE inputs[x]]

\* A resolver that passes None for every connected handle.
EdgeAssignNone(acc, e, node_results) ==
    IF e.source \notin DOMAIN node_results THEN acc
    ELSE [acc EXCEPT !.inputs = Put(@, e.targetHandle, NoneV)]

\* A resolver that passes None when an indexed handle is past the tuple's end.
EdgeAssignPadded(acc, e, node_results) ==
    IF e.source \notin DOMAIN node_results THEN acc
    ELSE LET r == node_results[e.source]
         IN  IF r.k = "tuple"
             THEN IF e.sourceHandle \in IndexedHandles
                  THEN IF HandleIndex(e.sourceHandle) < 0
                       THEN [acc EXCEPT !.raised = TRUE]
                       ELSE [acc EXCEPT !.inputs =
                               Put(@, e.targetHandle,
                                   IF HandleIndex(e.sourceHandle) < Len(r.t)
                                   THEN Elem(r.t[HandleIndex(e.sourceHandle) + 1])
                                   ELSE NoneV)]
                  ELSE [acc EXCEPT !.inputs =
                          Put(@, e.targetHandle,
                              IF Len(r.t) > 0 THEN Elem(r.t[1]) ELSE NoneV)]
             ELSE IF r.k = "dict" /\ e.sourceHandle \in DictKeys /\ r.d[e.sourceHandle] # -1
                  THEN [acc EXCEPT !.inputs = Put(@, e.targetHandle, Scalar(r.d[e.sourceHandle]))]
                  ELSE [acc EXCEPT !.inputs = Put(@, e.targetHandle, r)]

\* A resolver that takes the first element of every tuple, whatever the
\* source handle.
EdgeAssignFirstOnly(acc, e, node_results) ==
    IF e.source \notin DOMAIN node_results THEN acc
    ELSE LET r == node_results[e.source]
         IN  IF r.k = "tuple"
             THEN [acc EXCEPT !.inputs =
                      Put(@, e.targetHandle, IF Len(r.t) > 0 THEN Elem(r.t[1]) ELSE NoneV)]
             ELSE [acc EXCEPT !.inputs = Put(@, e.targetHandle, r)]

\* lines 390-410: what one edge into the node assigns
EdgeAssign(acc, e, node_results) ==
    IF e.source \notin DOMAIN node_results THEN acc
    ELSE LET r == node_results[e.source]
             sh == e.sourceHandle
             th == e.targetHandle
         IN  IF r.k = "tuple"
             THEN IF sh \in IndexedHandles
                  THEN IF HandleIndex(sh) < 0
                       THEN [acc EXCEPT !.raised = TRUE]
                       ELSE IF HandleIndex(sh) < Len(r.t)
                            THEN [acc EXCEPT !.inputs = Put(@, th, Elem(r.t[HandleIndex(sh) + 1]))]
                            ELSE acc
                  ELSE IF Len(r.t) = 1
                       THEN [acc EXCEPT !.inputs = Put(@, th, Elem(r.t[1]))]
                       ELSE IF Len(r.t) > 0
                            THEN [acc EXCEPT !.inputs = Put(@, th, Elem(r.t[1]))]
                            ELSE [acc EXCEPT !.inputs = Put(@, th, NoneV)]
             ELSE IF r.k = "dict" /\ sh \in DictKeys /\ r.d[sh] # -1
                  THEN [acc EXCEPT !.inputs = Put(@, th, Scalar(r.d[sh]))]
                  ELSE [acc EXCEPT !.inputs = Put(@, th, r)]

\* lines 383-410: the edge loop, in edge-list order; stops at an exception
RECURSIVE EdgeInputs(_, _, _, _)
EdgeInputs(edges, node_id, node_results, acc) ==
    IF edges = <<>> \/ acc.raised THEN acc
    ELSE LET e == Head(edges)
             nxt == IF e.target = node_id THEN EdgeAssign(acc, e, node_results) ELSE acc
         IN  EdgeInputs(Tail(edges), node_id, node_results, nxt)

\* A slip in the precedence: parameters written first, edges over them.
UpdateParamsUnder(inputs, node_params) ==
    [h \in DOMAIN inputs \cup DOMAIN node_params |->
        IF h \in DOMAIN inputs THEN inputs[h] ELSE node_params[h]]

\* line 414: inputs.update(node_params)
UpdateParams(inputs, node_params) ==
    [h \in DOMAIN inputs \cup DOMAIN node_params |->
        IF h \in DOMAIN node_params THEN node_params[h] ELSE inputs[h]]

\* A default loop that passes None for a declared input without a default.
FillDefaultsOrNone(inputs, specs) ==
    [h \in DOMAIN inputs \cup DOMAIN specs |->
        IF h \in DOMAIN inputs THEN inputs[h]
        ELSE IF specs[h].has THEN specs[h].val ELSE NoneV]

\* lines 423-431: one of the two default loops (required, then optional)
\* A fill that writes every declared default, present input or not.
FillDefaultsOverriding(inputs, specs) ==
    [h \in DOMAIN inputs \cup {x \in DOMAIN specs : specs[x].has} |->
        IF h \in DOMAIN specs /\ specs[h].has THEN specs[h].val ELSE inputs[h]]

FillDefaults(inputs, specs) ==
    [h \in DOMAIN inputs \cup {x \in DOMAIN specs : specs[x].has} |->
        IF h \in DOMAIN inputs THEN inputs[h] ELSE specs[h].val]

\* lines 377-433. raised = TRUE stands for the resolver raising.
PrepareNodeInputs(node_id, node_data, node_results, edges) ==
    LET fromEdges == EdgeInputs(edges, node_id, node_results,
                                [raised |-> FALSE, inputs |-> EmptyMap])
        withParams == UpdateParams(fromEdges.inputs, node_data.parameters)
        withReq == FillDefaults(withParams, node_data.required)
        withOpt == FillDefaults(withReq, node_data.optional)
    IN  IF fromEdges.raised THEN [raised |-> TRUE, inputs |-> EmptyMap]
        ELSE [raised |-> FALSE, inputs |-> withOpt]

\* ------------------------------------------------------------ node plugins
\* core/node_registry.py: the type names node_registry.get_node resolves.
\* register_node (lines 14-22) accepts any subclass of NodeBase; the classes
\* here are taken as constructible (every abstract method of NodeBase
\* defined) and are modelled by their entry function. DataRecordNode is
\* defined in basic_nodes.py with its line of NODE_CLASS_MAPPINGS commented
\* out, so it is registered through register_node only. HollowNode is a
\* registered class whose FUNCTION() names a method the class does not define.
Registry == {"InputNode", "DisplayNode", "DataRecordNode", "CreateDatasetNode",
             "HollowNode"}

\* The classes on which getattr(node_instance, function_name) (line 357)
\* finds the entry function.
ProvidesFunction(class) == class # "HollowNode"

\* The keyword parameters of the entry function of a class.
Keywords(class) ==
    CASE class = "DataRecordNode" -> {"hf_token"}
      [] class = "CreateDatasetNode" -> {"dataset_config", "robot", "resume"}
      [] OTHER -> {"value"}

\* The keyword parameters the entry function itself gives a default:
\* create_dataset(self, dataset_config, robot, resume=False).
DefaultedKeywords(class) == IF class = "CreateDatasetNode" THEN {"resume"} ELSE {}

\* The "required" keys of INPUT_TYPES() of a class: for each of the classes
\* here, every keyword parameter of its entry function ("resume" included).
RequiredInputs(class) == Keywords(class)

\* NodeBase.validate_inputs(**kwargs): TRUE when it raises ValueError, which
\* it does for a required key that is not among the keyword arguments.
ValidateInputs(class, inputs) ==
    \E key \in RequiredInputs(class) : key \notin DOMAIN inputs

\* A validation step whose ValueError is not caught.
TryValidateStrict(class, inputs) ==
    IF ValidateInputs(class, inputs) THEN "raised" ELSE "ok"

\* lines 350-354: the validation step inside try / except Exception: pass
TryValidate(class, inputs) ==
    IF ValidateInputs(class, inputs) THEN "swallowed" ELSE "ok"

\* What DataRecordNode.record_data returns: (True, message) for a token,
\* (False, message) for an empty one. Scalar(0) stands for the empty token,
\* Scalar(4) / Scalar(6) for True / False, Scalar(8) / Scalar(9) for the two
\* message strings.
RecordMessages == {Scalar(8), Scalar(9)}

\* What the entry function of a registered class returns when called with
\* keyword arguments (line 358). raised = TRUE: the getattr of line 357
\* raises AttributeError, or the call raises (TypeError on a missing or
\* unexpected keyword). pair = TRUE: the value is a 2-tuple (first, second).
\*   InputNode.execute(value) returns value
\*   DisplayNode.display(value) returns (None, value)
\*   DataRecordNode.record_data(hf_token) returns (success, message)
\*   CreateDatasetNode.create_dataset(dataset_config, robot, resume) runs in
\*   a try block; subscripting a dataset_config that is not a dict raises
\*   inside it and the except clause returns ((None,), {"error": message}).
\*   The dict is DictV with 7 under "k"; the inputs drawn here are scalars.
EntryReturn(class, inputs) ==
    IF \/ ~ProvidesFunction(class)
       \/ ~(DOMAIN inputs \subseteq Keywords(class))
       \/ ~((Keywords(class) \ DefaultedKeywords(class)) \subseteq DOMAIN inputs)
    THEN [raised |-> TRUE, pair |-> FALSE, first |-> NoneV, second |-> NoneV]
    ELSE CASE class = "InputNode" ->
                [raised |-> FALSE, pair |-> FALSE, first |-> inputs["value"],
                 second |-> NoneV]
           [] class = "DisplayNode" ->
                [raised |-> FALSE, pair |-> TRUE, first |-> NoneV,
                 second |-> inputs["value"]]
           [] class = "CreateDatasetNode" ->
                [raised |-> FALSE, pair |-> TRUE, first |-> TupleV(<<-1>>),
                 second |-> DictV([NoDict EXCEPT !["k"] = 7])]
           [] OTHER ->
                IF inputs["hf_token"] = Scalar(0)
                THEN [raised |-> FALSE, pair |-> TRUE, first |-> Scalar(6),
                      second |-> Scalar(9)]
                ELSE [raised |-> FALSE, pair |-> TRUE, first |-> Scalar(4),
                      second |-> Scalar(8)]

\* A split that keeps the second element of a pair as the node's output.
SplitResultSwapped(r) ==
    [raised |-> r.raised,
     result |-> IF r.pair THEN r.second ELSE r.first,
     rt_update |-> IF r.pair THEN r.first ELSE NoneV]

\* lines 360-366: a 2-tuple is split into the node's output and the live
\* update; any other value is the output
SplitResult(r) ==
    [raised |-> r.raised,
     result |-> r.first,
     rt_update |-> IF r.pair THEN r.second ELSE NoneV]

\* lines 356-371: the call of the entry function and the split of its value.
\* result = NoneV: the node's output is None.
EntryFunction(class, inputs) == SplitResult(EntryReturn(class, inputs))

\* ------------------------------------------------------------- workflows
\* A node placement of the wire shape; wf is the identity of the workflow
\* object the node dict belongs to (id(workflow) in the code).
Node(id, type, wf, params, req) ==
    [id |-> id, type |-> type, wf |-> wf, parameters |-> params,
     required |-> req, optional |-> EmptyMap]

ValueParam(n) == [h \in {"value"} |-> Scalar(n)]
ValueInput == [h \in {"value"} |-> NoDefault]

\* The workflow objects a caller may submit (WorkflowRequest, main.py).
\*  1: a -> b, valid
\*  2: a -> b -> a, a cycle
\*  3: b -> a, a of an unregistered type
\*  4: an empty node list (fails the structural validation of load_workflow)
\*  5: no 'edges' key (fails the structural validation of load_workflow)
Workflows ==
    << [id |-> 1, hasEdges |-> TRUE,
        nodes |-> << Node("a", "InputNode", 1, ValueParam(1), ValueInput),
                     Node("b", "DisplayNode", 1, EmptyMap, ValueInput) >>,
        edges |-> << Edge("a", "output", "b", "value") >>],
       [id |-> 2, hasEdges |-> TRUE,
        nodes |-> << Node("a", "InputNode", 2, EmptyMap, ValueInput),
                     Node("b", "InputNode", 2, EmptyMap, ValueInput) >>,
        edges |-> << Edge("a", "output", "b", "value"),
                     Edge("b", "output", "a", "value") >>],
       [id |-> 3, hasEdges |-> TRUE,
        nodes |-> << Node("a", "GhostNode", 3, EmptyMap, ValueInput),
                     Node("b", "InputNode", 3, ValueParam(2), ValueInput) >>,
        edges |-> << Edge("b", "output", "a", "value") >>],
       [id |-> 4, hasEdges |-> TRUE, nodes |-> <<>>, edges |-> <<>>],
       [id |-> 5, hasEdges |-> FALSE,
        nodes |-> << Node("a", "InputNode", 5, ValueParam(1), ValueInput) >>,
        edges |-> <<>>] >>

WorkflowIds == DOMAIN Workflows

\* current_workflow = None
NoWorkflow == [id |-> 0, hasEdges |-> FALSE, nodes |-> <<>>, edges |-> <<>>]

\* lines 71-75: a non-empty 'nodes' list and an 'edges' list
StructurallyValid(wf) == Len(wf.nodes) > 0 /\ wf.hasEdges

\* line 154: {node["id"]: node for node in nodes} (the last placement of an id wins)
NodeDataMap(nodes) ==
    [id \in NodeIdsOf(nodes) |->
        nodes[CHOOSE i \in DOMAIN nodes :
                 /\ nodes[i].id = id
                 /\ \A j \in DOMAIN nodes : nodes[j].id = id => j <= i]]

\* lines 175-184: the entry of self._node_instances for a node
Instance(node_data) ==
    [class |-> node_data.type, node |-> node_data.id, wf |-> node_data.wf]

NoCall == [class |-> "", node |-> "", wf |-> 0]

\* ----------------------------------------------------------------- state
VARIABLES
    is_running,          \* self.is_running
    current_workflow,    \* self.current_workflow
    execution_results,   \* self.execution_results
    count_of_iterations, \* self.count_of_iterations
    thread,              \* self.thread: 0 = None, else the last worker launched
    execution_order,     \* self._execution_order
    node_instances,      \* self._node_instances
    node_data_map,       \* self._node_data_map
    edges,               \* self._edges
    is_setup,            \* self._is_setup
    loop_interval,       \* self.loop_interval
    pc,                  \* where each thread is: 0 = the caller, 1.. = workers
    loc,                 \* each thread's local variables
    calls,               \* how many administrative calls were made
    ret,                 \* what the last administrative call returned
    run_completed,       \* iteration numbers of the 'completed' updates published since the last start
    built_since_load,    \* ids whose pooled instance was constructed after the latest load_workflow
    solo_run,            \* no earlier worker was alive when the last worker was launched
    run_errors,          \* workflow_error events published since the last start, with their cause
    last_call,           \* the node instance whose entry function was called last
    node_events,         \* the node_state events of the last turn of the node loop
    last_args,           \* the keyword arguments of the last entry function call
    last_update,         \* the rt_update carried by the last 'completed' node event
    sort_in, sort_out,   \* argument and result of _topological_sort (SpecSort)
    prep_in, prep_out,   \* argument and result of the input resolver (SpecInputs)
    pass_in,             \* the graph and the caller's event loop of a one-shot run (SpecPass)
    trip_out,            \* result of _topological_sort on the round-tripped graph (SpecSort)
    execution_logs,      \* self.execution_logs: the entries, each named by its number
    log_calls,           \* where each thread is inside log_message, and its slice (SpecLog)
    logged,              \* how many entries were ever appended
    status_logs,         \* the "logs" of the last get_status
    listing,             \* file names os.listdir returned that are still to visit (SpecDiscover)
    broken,              \* the modules whose exec_module raises (SpecDiscover)
    registry_nodes,      \* NodeRegistry.nodes: name -> class
    loaded,              \* the modules whose exec_module returned
    event_loop           \* the current event loop of the caller's thread

engine == <<is_running, current_workflow, execution_results, count_of_iterations,
            thread, execution_order, node_instances, node_data_map, edges, is_setup,
            loop_interval>>
threads == <<pc, loc>>
observed == <<calls, ret, run_completed, solo_run, built_since_load, run_errors, last_call, node_events,
              last_args, last_update>>
logging == <<execution_logs, log_calls, logged, status_logs>>
discovery == <<listing, broken, registry_nodes, loaded>>
services == <<logging, discovery>>
fixtures == <<sort_in, sort_out, prep_in, prep_out, pass_in, trip_out, services>>
vars == <<engine, threads, observed, fixtures, event_loop>>

Caller == 0
Workers == 1..MaxWorkers
Threads == {Caller} \cup Workers

\* The threads that log in SpecLog: the caller's thread and one worker.
LogThreads == {Caller, 1}
\* A thread outside log_message.
LogIdle == [pc |-> "idle", slice |-> <<>>]

LocInit ==
    [nodes |-> <<>>, order |-> <<>>, idx |-> 0, results |-> EmptyMap,
     ret |-> "", tmp |-> 0, iter |-> 0, err |-> "", join |-> 0]

NoFixture == [used |-> FALSE]

EngineInit ==
    /\ is_running = FALSE
    /\ current_workflow = NoWorkflow
    /\ execution_results = EmptyMap
    /\ count_of_iterations = 0
    /\ thread = 0
    /\ execution_order = <<>>
    /\ node_instances = EmptyMap
    /\ node_data_map = EmptyMap
    /\ edges = <<>>
    /\ is_setup = FALSE
    /\ loop_interval = 1
    /\ pc = [t \in Threads |-> IF t = Caller THEN "idle" ELSE "unborn"]
    /\ loc = [t \in Threads |-> LocInit]
    /\ calls = 0
    /\ ret = ""
    /\ run_completed = <<>>
    /\ solo_run = FALSE
    /\ built_since_load = {}
    /\ run_errors = <<>>
    /\ last_call = NoCall
    /\ node_events = <<>>
    /\ last_args = EmptyMap
    /\ last_update = NoneV
    /\ execution_logs = <<>>
    /\ log_calls = [t \in LogThreads |-> LogIdle]
    /\ logged = 0
    /\ status_logs = <<>>
    /\ registry_nodes = EmptyMap
    /\ loaded = {}

\* No discovery is under way.
DiscoveryIdle == listing = <<>> /\ broken = {}

\* lines 27-43: __init__
Init ==
    /\ EngineInit
    /\ sort_in = NoFixture /\ sort_out = NoFixture
    /\ prep_in = NoFixture /\ prep_out = NoFixture
    /\ pass_in = NoFixture
    /\ trip_out = NoFixture
    /\ DiscoveryIdle
    /\ event_loop = "running"

\* --------------------------------------------------------- thread helpers
Goto(t, where) == pc' = [pc EXCEPT ![t] = where]
SetLoc(t, l) == loc' = [loc EXCEPT ![t] = l]
CallerIdle == pc[Caller] = "idle"
CanCall == CallerIdle /\ calls < MaxCalls
Dead(w) == pc[w] = "dead"
Unborn == {w \in Workers : pc[w] = "unborn"}
NextWorker == CHOOSE w \in Unborn : \A v \in Unborn : w <= v

\* ------------------------------------------------------- _broadcast_sync
\* What asyncio.get_event_loop() (line 49) finds on the calling thread: a
\* worker thread has no loop ("none", RuntimeError), an async handler of
\* main.py runs inside the running loop ("running"), a synchronous caller on
\* the main thread gets a loop that is not running ("idle").
Loops == {"none", "running", "idle"}
LoopOf(t) == IF t \in Workers THEN "none" ELSE event_loop

\* The thread's loop after _broadcast_sync returned or raised: asyncio.run
\* (line 56) closes the loop it ran and leaves the thread without a current
\* loop, so the next get_event_loop() on the thread raises RuntimeError.
LoopAfter(loop) == IF loop = "idle" THEN "none" ELSE loop

\* What running the broadcast coroutine raises: nothing, or the TypeError of
\* json.dumps(message) (websocket_manager.py line 44) when a client is
\* connected and the payload holds a value json cannot encode.
CoroFailures == {"none", "TypeError"}

\* A helper without the inner try of lines 60-65.
BroadcastSyncUncaught(loop, failure) ==
    CASE loop = "running" -> "returned"
      [] loop = "idle" -> IF failure \in {"none", "RuntimeError"}
                          THEN "returned" ELSE "raised"
      [] OTHER -> IF failure = "none" THEN "returned" ELSE "raised"

\* lines 45-65: "returned" or "raised". With a running loop the coroutine
\* becomes a task (line 52) and its failure stays in the task; with an idle
\* loop asyncio.run (line 56) is covered by `except RuntimeError` only, and
\* the retry of line 61 on the spent coroutine raises a RuntimeError that
\* line 63 catches; with no loop asyncio.run (line 61) is covered by
\* `except Exception`.
BroadcastSync(loop, failure) ==
    CASE loop = "running" -> "returned"
      [] loop = "idle" -> IF failure \in {"none", "RuntimeError"}
                          THEN "returned" ELSE "raised"
      [] OTHER -> "returned"

\* broadcast_node_state(node_id, state, data), lines 268, 279, 286; failure
\* is what the broadcast coroutine of the event raised
NodeState(node_id, state, failure) ==
    [node |-> node_id, state |-> state, failure |-> failure]

\* ------------------------------------------------- administrative surface
\* A load that also compiles the graph before accepting it.
LoadWorkflowCompiled(g) ==
    /\ CanCall
    /\ calls' = calls + 1
    /\ IF /\ StructurallyValid(Workflows[g])
          /\ \E iter \in SetOrders(NodeIdsOf(Workflows[g].nodes)) :
                TopologicalSort(Workflows[g].nodes, Workflows[g].edges, iter).ok
          /\ \A i \in DOMAIN Workflows[g].nodes : Workflows[g].nodes[i].type \in Registry
       THEN /\ current_workflow' = Workflows[g]
            /\ is_setup' = FALSE
            /\ built_since_load' = {}
            /\ ret' = "load_true"
       ELSE /\ ret' = "load_false"
            /\ UNCHANGED <<current_workflow, is_setup, built_since_load>>
    /\ UNCHANGED <<is_running, execution_results, count_of_iterations, thread,
                   execution_order, node_instances, node_data_map, edges>>
    /\ UNCHANGED <<threads, run_completed, solo_run, run_errors, last_call, node_events, last_args, last_update, loop_interval, fixtures, event_loop>>

\* A load that marks the plan for a rebuild before it validates the graph.
LoadWorkflowUnsetting(g) ==
    /\ CanCall
    /\ calls' = calls + 1
    /\ is_setup' = FALSE
    /\ IF StructurallyValid(Workflows[g])
       THEN /\ current_workflow' = Workflows[g]
            /\ built_since_load' = {}
            /\ ret' = "load_true"
       ELSE /\ ret' = "load_false"
            /\ UNCHANGED <<current_workflow, built_since_load>>
    /\ UNCHANGED <<is_running, execution_results, count_of_iterations, thread,
                   execution_order, node_instances, node_data_map, edges>>
    /\ UNCHANGED <<threads, run_completed, solo_run, run_errors, last_call, node_events, last_args, last_update, loop_interval, fixtures, event_loop>>

\* lines 67-84: load_workflow
LoadWorkflow(g) ==
    /\ CanCall
    /\ calls' = calls + 1
    /\ IF StructurallyValid(Workflows[g])
       THEN /\ current_workflow' = Workflows[g]
            /\ is_setup' = FALSE
            /\ built_since_load' = {}
            /\ ret' = "load_true"
       ELSE /\ ret' = "load_false"
            /\ UNCHANGED <<current_workflow, is_setup, built_since_load>>
    /\ UNCHANGED <<is_running, execution_results, count_of_iterations, thread,
                   execution_order, node_instances, node_data_map, edges>>
    /\ UNCHANGED <<threads, run_completed, solo_run, run_errors, last_call, node_events, last_args, last_update, loop_interval, fixtures, event_loop>>

\* A launch that keeps the iteration count of the previous run.
LaunchKeepingCount ==
    /\ Unborn # {}
    /\ is_running' = TRUE
    /\ UNCHANGED count_of_iterations
    /\ thread' = NextWorker
    /\ pc' = [pc EXCEPT ![NextWorker] = "setup"]
    /\ loc' = [loc EXCEPT ![NextWorker] = [LocInit EXCEPT !.ret = "loop"]]
    /\ run_completed' = <<>>
    /\ solo_run' = \A v \in Workers : pc[v] \in {"unborn", "dead"}
    /\ UNCHANGED built_since_load
    /\ run_errors' = <<>>
    /\ ret' = "started"

\* lines 96-100: the launch of a worker, whose first statements are lines 195-198
Launch ==
    /\ Unborn # {}
    /\ is_running' = TRUE
    /\ count_of_iterations' = 0
    /\ thread' = NextWorker
    /\ pc' = [pc EXCEPT ![NextWorker] = "setup"]
    /\ loc' = [loc EXCEPT ![NextWorker] = [LocInit EXCEPT !.ret = "loop"]]
    /\ run_completed' = <<>>
    /\ solo_run' = \A v \in Workers : pc[v] \in {"unborn", "dead"}
    /\ UNCHANGED built_since_load
    /\ run_errors' = <<>>
    /\ ret' = "started"

\* A start without the guard of line 88.
StartUnguarded ==
    /\ CanCall
    /\ calls' = calls + 1
    /\ IF current_workflow = NoWorkflow
       THEN /\ ret' = "no_workflow"
            /\ UNCHANGED <<is_running, count_of_iterations, thread, threads,
                           run_completed, solo_run, built_since_load, run_errors>>
       ELSE Launch
    /\ UNCHANGED <<current_workflow, execution_results, execution_order,
                   node_instances, node_data_map, edges, is_setup, last_call, node_events, last_args, last_update,
                   loop_interval, fixtures, event_loop>>

\* lines 86-100: start_continuous_execution
StartContinuousExecution ==
    /\ CanCall
    /\ calls' = calls + 1
    /\ IF is_running
       THEN /\ ret' = "already_running"
            /\ UNCHANGED <<is_running, count_of_iterations, thread, threads,
                           run_completed, solo_run, built_since_load, run_errors>>
       ELSE IF current_workflow = NoWorkflow
            THEN /\ ret' = "no_workflow"
                 /\ UNCHANGED <<is_running, count_of_iterations, thread, threads,
                                run_completed, solo_run, built_since_load, run_errors>>
            ELSE Launch
    /\ UNCHANGED <<current_workflow, execution_results, execution_order,
                   node_instances, node_data_map, edges, is_setup, last_call, node_events, last_args, last_update,
                   loop_interval, fixtures, event_loop>>

\* lines 109-129 on thread t, up to the join: the flag flip, the
\* continuous_stopped broadcast, and the choice of whom to join (lines 125-127)
StopFlag(t, after) ==
    IF ~is_running
    THEN /\ Goto(t, after)
         /\ SetLoc(t, LocInit)
         /\ UNCHANGED is_running
    ELSE /\ is_running' = FALSE
         /\ IF thread # 0 /\ thread # t
            THEN /\ Goto(t, "joining")
                 /\ SetLoc(t, [LocInit EXCEPT !.join = thread])
            ELSE /\ Goto(t, after)
                 /\ SetLoc(t, LocInit)

\* lines 102-129 called on the caller's thread
StopContinuousExecution ==
    /\ CanCall
    /\ calls' = calls + 1
    /\ ret' = IF is_running THEN "stopped" ELSE "not_running"
    /\ StopFlag(Caller, "idle")
    /\ event_loop' = IF is_running THEN LoopAfter(event_loop) ELSE event_loop
    /\ UNCHANGED <<current_workflow, execution_results, count_of_iterations, thread,
                   execution_order, node_instances, node_data_map, edges, is_setup>>
    /\ UNCHANGED <<run_completed, solo_run, built_since_load, run_errors, last_call, node_events, last_args, last_update,
                   loop_interval, fixtures>>

AfterJoin(t) == IF t = Caller THEN "idle" ELSE "dead"

\* line 128: thread.join(timeout=5.0) returns because the joined thread ended
JoinReturn(t) ==
    /\ pc[t] = "joining"
    /\ Dead(loc[t].join)
    /\ Goto(t, AfterJoin(t))
    /\ SetLoc(t, LocInit)
    /\ UNCHANGED <<engine, observed, fixtures, event_loop>>

\* line 128: thread.join(timeout=5.0) returns because the 5 seconds elapsed
\* while the joined thread is still in a node call, a sleep or a setup
JoinTimeout(t) ==
    /\ pc[t] = "joining"
    /\ ~Dead(loc[t].join)
    /\ Goto(t, AfterJoin(t))
    /\ SetLoc(t, LocInit)
    /\ UNCHANGED <<engine, observed, fixtures, event_loop>>

\* ------------------------------------------------- where an exception goes
\* ctx = "loop": raised by line 198, outside the try of the loop: the worker
\* thread dies with the exception. Otherwise the exception reaches the except
\* clause of the loop (line 242) on a worker, or the except clause of
\* execute_workflow_once (lines 493-510) on the caller's thread.
Raise(t, kind, ctx) ==
    IF ctx = "loop"
    THEN /\ Goto(t, "dead")
         /\ SetLoc(t, LocInit)
         /\ UNCHANGED <<ret, run_errors>>
    ELSE IF t = Caller
         THEN /\ Goto(t, "idle")
              /\ SetLoc(t, LocInit)
              /\ ret' = "failed"
              /\ run_errors' = Append(run_errors, [kind |-> kind, iter |-> 0])
         ELSE /\ Goto(t, "except")
              /\ SetLoc(t, [LocInit EXCEPT !.iter = loc[t].iter, !.err = kind])
              /\ UNCHANGED <<ret, run_errors>>

\* Where _setup_execution returns to: line 198 (then the continuous_started
\* broadcast and the loop test), line 261 or line 477.
SetupReturn(t) ==
    /\ Goto(t, CASE loc[t].ret = "loop" -> "while"
                 [] loc[t].ret = "pass" -> "pass_order"
                 [] OTHER -> "pass")
    /\ SetLoc(t, [LocInit EXCEPT !.iter = loc[t].iter])

\* ------------------------------------------------------- _setup_execution
\* lines 140-144: the guard and the read of the node list
SetupBegin(t) ==
    /\ pc[t] = "setup"
    /\ IF current_workflow = NoWorkflow \/ is_setup
       THEN SetupReturn(t)
       ELSE /\ Goto(t, "setup_sort")
            /\ SetLoc(t, [loc[t] EXCEPT !.nodes = current_workflow.nodes])
    /\ UNCHANGED <<engine, observed, fixtures, event_loop>>

\* lines 145-157: the read of the edge list, the sort, the node data map and
\* the empty instance pool
SetupSort(t) ==
    /\ pc[t] = "setup_sort"
    /\ edges' = current_workflow.edges
    /\ \E iter \in SetOrders(NodeIdsOf(loc[t].nodes)) :
         LET r == TopologicalSort(loc[t].nodes, current_workflow.edges, iter)
         IN  IF r.ok
             THEN /\ execution_order' = r.order
                  /\ node_data_map' = NodeDataMap(loc[t].nodes)
                  /\ node_instances' = EmptyMap
                  /\ built_since_load' = {}
                  /\ SetLoc(t, [loc[t] EXCEPT !.nodes = <<>>, !.order = r.order, !.idx = 1])
                  /\ Goto(t, "setup_inst")
                  /\ UNCHANGED <<ret, run_errors>>
             ELSE /\ Raise(t, "setup", loc[t].ret)
                  /\ UNCHANGED <<execution_order, node_data_map, node_instances,
                                 built_since_load>>
    /\ UNCHANGED <<is_running, current_workflow, execution_results, count_of_iterations,
                   thread, is_setup>>
    /\ UNCHANGED <<calls, run_completed, solo_run, last_call, node_events, last_args, last_update, loop_interval, fixtures, event_loop>>

\* lines 186-187 after the last turn of the instantiation loop
SetupFinish(t, last) ==
    IF last
    THEN is_setup' = TRUE /\ SetupReturn(t)
    ELSE SetLoc(t, [loc[t] EXCEPT !.idx = @ + 1]) /\ UNCHANGED <<pc, is_setup>>

\* lines 158-187: one turn of the instantiation loop; after the last node,
\* line 186 marks the plan ready
SetupInstantiate(t) ==
    /\ pc[t] = "setup_inst"
    /\ LET node_id == loc[t].order[loc[t].idx]
           last == loc[t].idx = Len(loc[t].order)
       IN  IF node_id \notin DOMAIN node_data_map
           THEN /\ Raise(t, "setup", loc[t].ret)
                /\ UNCHANGED <<node_instances, is_setup, built_since_load>>
           ELSE LET node_data == node_data_map[node_id]
                IN  IF node_data.type = "" \/ node_data.type \notin Registry
                    THEN /\ Raise(t, "setup", loc[t].ret)
                         /\ UNCHANGED <<node_instances, is_setup, built_since_load>>
                    ELSE /\ node_instances' =
                                Put(node_instances, node_id, Instance(node_data))
                         /\ built_since_load' = built_since_load \cup {node_id}
                         /\ SetupFinish(t, last)
                         /\ UNCHANGED <<ret, run_errors>>
    /\ UNCHANGED <<is_running, current_workflow, execution_results, count_of_iterations,
                   thread, execution_order, node_data_map, edges>>
    /\ UNCHANGED <<calls, run_completed, solo_run, last_call, node_events, last_args, last_update, loop_interval, fixtures, event_loop>>

\* ------------------------------------- _execute_workflow_once_optimized
\* lines 264-265: node_results = {} and the iterator over self._execution_order
BeginNodes(t, l) ==
    /\ SetLoc(t, [l EXCEPT !.order = execution_order, !.idx = 1, !.results = EmptyMap])
    /\ Goto(t, "node")

\* lines 260-265, when entered from execute_workflow_once (line 478)
PassBegin(t) ==
    /\ pc[t] = "pass"
    /\ IF is_setup
       THEN BeginNodes(t, loc[t])
       ELSE /\ Goto(t, "setup")
            /\ SetLoc(t, [loc[t] EXCEPT !.ret = "pass"])
    /\ UNCHANGED <<engine, observed, fixtures, event_loop>>

\* lines 264-265 after the setup of line 261 returned
PassOrder(t) ==
    /\ pc[t] = "pass_order"
    /\ BeginNodes(t, loc[t])
    /\ UNCHANGED <<engine, observed, fixtures, event_loop>>

\* A pass that returns without line 292.
PassEndUnstored(t, results) ==
    /\ UNCHANGED execution_results
    /\ IF t = Caller
       THEN /\ Goto(t, "idle")
            /\ SetLoc(t, LocInit)
            /\ ret' = "success"
       ELSE /\ Goto(t, "count_write")
            /\ SetLoc(t, [LocInit EXCEPT !.iter = loc[t].iter, !.tmp = count_of_iterations])
            /\ UNCHANGED ret

\* line 292 after the last node, and what follows the pass: the return of
\* execute_workflow_once (lines 480-491), or in the loop the read of
\* count_of_iterations for line 223
PassEnd(t, results) ==
    /\ execution_results' = results
    /\ IF t = Caller
       THEN /\ Goto(t, "idle")
            /\ SetLoc(t, LocInit)
            /\ ret' = "success"
       ELSE /\ Goto(t, "count_write")
            /\ SetLoc(t, [LocInit EXCEPT !.iter = loc[t].iter, !.tmp = count_of_iterations])
            /\ UNCHANGED ret

\* A node loop that tests is_running before each node of a worker's pass.
NextNodeIfRunning(t, results) ==
    IF is_running \/ t = Caller
    THEN /\ SetLoc(t, [loc[t] EXCEPT !.idx = @ + 1, !.results = results])
         /\ UNCHANGED <<pc, ret, execution_results>>
    ELSE /\ Goto(t, "dead")
         /\ SetLoc(t, LocInit)
         /\ UNCHANGED <<ret, execution_results>>

\* line 265: the for loop takes the next id of the order; nothing else is
\* consulted between two nodes
NextNode(t, results) ==
    /\ SetLoc(t, [loc[t] EXCEPT !.idx = @ + 1, !.results = results])
    /\ UNCHANGED <<pc, ret, execution_results>>

\* An except clause that re-raises without the 'error' event.
NodeErrorSilent(t, node_id, published, kind) ==
    /\ node_events' = published
    /\ Raise(t, kind, "pass")
    /\ UNCHANGED <<execution_results, last_update>>

\* An except clause that publishes the 'error' event twice.
NodeErrorTwice(t, node_id, published, kind) ==
    /\ node_events' = published \o <<NodeState(node_id, "error", "none"),
                                      NodeState(node_id, "error", "none")>>
    /\ Raise(t, kind, "pass")
    /\ UNCHANGED <<execution_results, last_update>>

\* lines 284-290: the except clause of the node loop: the 'error' event,
\* then `raise e`
NodeError(t, node_id, published, kind) ==
    /\ node_events' = published \o <<NodeState(node_id, "error", "none")>>
    /\ Raise(t, kind, "pass")
    /\ UNCHANGED <<execution_results, last_update>>

\* lines 265-292: one turn of the node loop (lines 335-375 for the node).
\* The websocket manager is attached (main.py line 64).
NodeExec(t) ==
    /\ pc[t] = "node"
    /\ LET node_id == loc[t].order[loc[t].idx]
           last == loc[t].idx = Len(loc[t].order)
           executing == <<NodeState(node_id, "executing", "none")>>
       IN  IF node_id \notin DOMAIN node_instances \/ node_id \notin DOMAIN node_data_map
           THEN /\ NodeError(t, node_id, executing, "node")
                /\ UNCHANGED <<last_call, last_args>>
           ELSE LET inst == node_instances[node_id]
                    prep == PrepareNodeInputs(node_id, node_data_map[node_id],
                                              loc[t].results, edges)
                    out == EntryFunction(inst.class, prep.inputs)
                    results == IF out.result = NoneV THEN loc[t].results
                               ELSE Put(loc[t].results, node_id, out.result)
                IN  IF prep.raised \/ TryValidate(inst.class, prep.inputs) = "raised"
                    THEN /\ NodeError(t, node_id, executing, "node")
                         /\ UNCHANGED <<last_call, last_args>>
                    ELSE /\ last_call' = inst
                         /\ last_args' = prep.inputs
                         /\ \E fault \in BOOLEAN :
                              IF fault \/ out.raised
                              THEN NodeError(t, node_id, executing, "node")
                              ELSE \E failure \in (IF out.rt_update = NoneV
                                                   THEN {"none"} ELSE CoroFailures) :
                                     LET completed == executing \o
                                            <<NodeState(node_id, "completed", failure)>>
                                     IN
                                     IF BroadcastSync(LoopOf(t), failure) = "raised"
                                     THEN NodeError(t, node_id, completed, "publish")
                                     ELSE /\ node_events' = completed
                                          /\ last_update' = out.rt_update
                                          /\ UNCHANGED run_errors
                                          /\ IF last
                                             THEN PassEnd(t, results)
                                             ELSE NextNode(t, results)
    /\ UNCHANGED <<is_running, current_workflow, count_of_iterations, thread,
                   execution_order, node_instances, node_data_map, edges, is_setup>>
    /\ UNCHANGED <<calls, run_completed, solo_run, built_since_load, loop_interval, fixtures, event_loop>>

\* lines 452-477: execute_workflow_once up to its call of _setup_execution,
\* with the workflow_started broadcast of line 467 (its payload is two
\* integers, which json encodes)
ExecuteOnce(workflow_data) ==
    /\ CanCall
    /\ calls' = calls + 1
    /\ IF is_running
       THEN /\ ret' = "raised"
            /\ UNCHANGED <<current_workflow, is_setup, threads, event_loop, built_since_load>>
       ELSE IF ~StructurallyValid(workflow_data)
            THEN /\ ret' = "load_failed"
                 /\ UNCHANGED <<current_workflow, is_setup, threads, event_loop,
                                built_since_load>>
            ELSE /\ current_workflow' = workflow_data
                 /\ is_setup' = FALSE
                 /\ built_since_load' = {}
                 /\ ret' = "running"
                 /\ event_loop' = LoopAfter(event_loop)
                 /\ Goto(Caller, "setup")
                 /\ SetLoc(Caller, [LocInit EXCEPT !.ret = "oneshot"])
    /\ UNCHANGED <<is_running, execution_results, count_of_iterations, thread,
                   execution_order, node_instances, node_data_map, edges>>
    /\ UNCHANGED <<run_completed, solo_run, run_errors, last_call, node_events, last_args, last_update,
                   loop_interval, fixtures>>

\* execute_workflow_once with one of the submitted workflows
ExecuteWorkflowOnce(g) == ExecuteOnce(Workflows[g])

\* ---------------------------------------------- live parameter updates
\* The arguments a caller passes to update_node_parameter: the id of a node
\* of the submitted graphs or an id no graph has, the handle "value" or a
\* name that is no keyword of the node's entry function.
UpdateIds == {"a", "z"}
UpdateNames == {"value", "gain"}
UpdateValues == {Scalar(7)}

\* line 532: node_data["data"]["parameters"][parameter_name] = parameter_value
WithParameter(node_data, name, value) ==
    [node_data EXCEPT !.parameters = Put(@, name, value)]

\* The node dict of the plan is the very object held by the workflow it was
\* read from (line 154 stores references): the write of line 532 is seen
\* through every list that holds the dict.
SameNode(n, m) == n.id = m.id /\ n.wf = m.wf
SeenThrough(nodes, target, name, value) ==
    [i \in DOMAIN nodes |->
        IF SameNode(nodes[i], target) THEN WithParameter(nodes[i], name, value)
        ELSE nodes[i]]

\* An update that forgets to test self._is_setup.
UpdateUnchecked(node_id, name, value) ==
    /\ CanCall
    /\ calls' = calls + 1
    /\ IF node_id \in DOMAIN node_data_map
       THEN LET target == node_data_map[node_id]
            IN  /\ node_data_map' = [node_data_map EXCEPT ![node_id] =
                                        WithParameter(@, name, value)]
                /\ current_workflow' = [current_workflow EXCEPT !.nodes =
                                           SeenThrough(@, target, name, value)]
                /\ loc' = [t \in Threads |-> [loc[t] EXCEPT !.nodes =
                                                 SeenThrough(@, target, name, value)]]
                /\ ret' = "update_true"
       ELSE /\ ret' = "update_false"
            /\ UNCHANGED <<node_data_map, current_workflow, loc>>
    /\ UNCHANGED <<is_running, execution_results, count_of_iterations, thread,
                   execution_order, node_instances, edges, is_setup, loop_interval>>
    /\ UNCHANGED <<pc, run_completed, solo_run, built_since_load, run_errors, last_call, node_events, last_args, last_update, fixtures, event_loop>>

\* An update that drops the plan, as a load does.
UpdateInvalidating(node_id, name, value) ==
    /\ CanCall
    /\ calls' = calls + 1
    /\ IF is_setup /\ node_id \in DOMAIN node_data_map
       THEN LET target == node_data_map[node_id]
            IN  /\ node_data_map' = [node_data_map EXCEPT ![node_id] =
                                        WithParameter(@, name, value)]
                /\ current_workflow' = [current_workflow EXCEPT !.nodes =
                                           SeenThrough(@, target, name, value)]
                /\ loc' = [t \in Threads |-> [loc[t] EXCEPT !.nodes =
                                                 SeenThrough(@, target, name, value)]]
                /\ is_setup' = FALSE
                /\ ret' = "update_true"
       ELSE /\ ret' = "update_false"
            /\ UNCHANGED <<node_data_map, current_workflow, loc, is_setup>>
    /\ UNCHANGED <<is_running, execution_results, count_of_iterations, thread,
                   execution_order, node_instances, edges, loop_interval>>
    /\ UNCHANGED <<pc, run_completed, solo_run, built_since_load, run_errors, last_call, node_events, last_args, last_update, fixtures, event_loop>>

\* An update that answers true but writes nothing while a pass is under way.
UpdateWhenQuiet(node_id, name, value) ==
    /\ CanCall
    /\ calls' = calls + 1
    /\ IF is_setup /\ node_id \in DOMAIN node_data_map
       THEN LET target == node_data_map[node_id]
                quiet == \A t \in Threads : pc[t] # "node"
            IN  /\ node_data_map' = IF quiet
                                    THEN [node_data_map EXCEPT ![node_id] =
                                             WithParameter(@, name, value)]
                                    ELSE node_data_map
                /\ current_workflow' = IF quiet
                                       THEN [current_workflow EXCEPT !.nodes =
                                                SeenThrough(@, target, name, value)]
                                       ELSE current_workflow
                /\ loc' = IF quiet
                          THEN [t \in Threads |-> [loc[t] EXCEPT !.nodes =
                                                      SeenThrough(@, target, name, value)]]
                          ELSE loc
                /\ ret' = "update_true"
       ELSE /\ ret' = "update_false"
            /\ UNCHANGED <<node_data_map, current_workflow, loc>>
    /\ UNCHANGED <<is_running, execution_results, count_of_iterations, thread,
                   execution_order, node_instances, edges, is_setup, loop_interval>>
    /\ UNCHANGED <<pc, run_completed, solo_run, built_since_load, run_errors, last_call, node_events, last_args, last_update, fixtures, event_loop>>

\* An update that replaces the parameter map of the node by {name: value}.
UpdateReplacing(node_id, name, value) ==
    /\ CanCall
    /\ calls' = calls + 1
    /\ IF is_setup /\ node_id \in DOMAIN node_data_map
       THEN LET target == node_data_map[node_id]
                Replaced(node_data) ==
                    [node_data EXCEPT !.parameters = [h \in {name} |-> value]]
                ReplacedThrough(nodes) ==
                    [i \in DOMAIN nodes |->
                        IF SameNode(nodes[i], target) THEN Replaced(nodes[i])
                        ELSE nodes[i]]
            IN  /\ node_data_map' = [node_data_map EXCEPT ![node_id] =
                                        Replaced(@)]
                /\ current_workflow' = [current_workflow EXCEPT !.nodes =
                                           ReplacedThrough(@)]
                /\ loc' = [t \in Threads |-> [loc[t] EXCEPT !.nodes =
                                                 ReplacedThrough(@)]]
                /\ ret' = "update_true"
       ELSE /\ ret' = "update_false"
            /\ UNCHANGED <<node_data_map, current_workflow, loc>>
    /\ UNCHANGED <<is_running, execution_results, count_of_iterations, thread,
                   execution_order, node_instances, edges, is_setup, loop_interval>>
    /\ UNCHANGED <<pc, run_completed, solo_run, built_since_load, run_errors, last_call, node_events, last_args, last_update, fixtures, event_loop>>

\* lines 521-542: update_node_parameter
UpdateNodeParameter(node_id, name, value) ==
    /\ CanCall
    /\ calls' = calls + 1
    /\ IF is_setup /\ node_id \in DOMAIN node_data_map
       THEN LET target == node_data_map[node_id]
            IN  /\ node_data_map' = [node_data_map EXCEPT ![node_id] =
                                        WithParameter(@, name, value)]
                /\ current_workflow' = [current_workflow EXCEPT !.nodes =
                                           SeenThrough(@, target, name, value)]
                /\ loc' = [t \in Threads |-> [loc[t] EXCEPT !.nodes =
                                                 SeenThrough(@, target, name, value)]]
                /\ ret' = "update_true"
       ELSE /\ ret' = "update_false"
            /\ UNCHANGED <<node_data_map, current_workflow, loc>>
    /\ UNCHANGED <<is_running, execution_results, count_of_iterations, thread,
                   execution_order, node_instances, edges, is_setup, loop_interval>>
    /\ UNCHANGED <<pc, run_completed, solo_run, built_since_load, run_errors, last_call, node_events, last_args, last_update, fixtures, event_loop>>

\* ------------------------------------------------------- set_loop_interval
\* The intervals a caller passes: negative, zero, positive.
Intervals == {-1, 0, 2}

\* A setter that stores the value before it validates it.
SetLoopIntervalStoring(interval) ==
    /\ CanCall
    /\ calls' = calls + 1
    /\ loop_interval' = interval
    /\ ret' = IF interval <= 0 THEN "interval_raised" ELSE "interval_set"
    /\ UNCHANGED <<is_running, current_workflow, execution_results, count_of_iterations,
                   thread, execution_order, node_instances, node_data_map, edges, is_setup>>
    /\ UNCHANGED <<threads, run_completed, solo_run, built_since_load, run_errors, last_call, node_events, last_args, last_update, fixtures, event_loop>>

\* lines 131-136: set_loop_interval; "interval_raised" is the ValueError
SetLoopInterval(interval) ==
    /\ CanCall
    /\ calls' = calls + 1
    /\ IF interval <= 0
       THEN ret' = "interval_raised" /\ UNCHANGED loop_interval
       ELSE ret' = "interval_set" /\ loop_interval' = interval
    /\ UNCHANGED <<is_running, current_workflow, execution_results, count_of_iterations,
                   thread, execution_order, node_instances, node_data_map, edges, is_setup>>
    /\ UNCHANGED <<threads, run_completed, solo_run, built_since_load, run_errors, last_call, node_events, last_args, last_update, fixtures, event_loop>>

\* --------------------------------------------------------- _execution_loop
\* A loop whose test never sees the flag cleared.
LoopIterDeaf(w) ==
    /\ pc[w] = "while"
    /\ count_of_iterations < MaxIter
    /\ IF is_setup
       THEN BeginNodes(w, [loc[w] EXCEPT !.iter = count_of_iterations + 1])
       ELSE /\ Goto(w, "setup")
            /\ SetLoc(w, [loc[w] EXCEPT !.iter = count_of_iterations + 1,
                                        !.ret = "pass"])
    /\ UNCHANGED <<engine, observed, fixtures, event_loop>>

\* lines 207-219 and 260-265: the loop test, the 'executing' update carrying
\* count_of_iterations + 1, and the entry into the pass
LoopIter(w) ==
    /\ pc[w] = "while"
    /\ IF ~is_running
       THEN Goto(w, "dead") /\ SetLoc(w, LocInit)
       ELSE /\ count_of_iterations < MaxIter
            /\ IF is_setup
               THEN BeginNodes(w, [loc[w] EXCEPT !.iter = count_of_iterations + 1])
               ELSE /\ Goto(w, "setup")
                    /\ SetLoc(w, [loc[w] EXCEPT !.iter = count_of_iterations + 1,
                                                !.ret = "pass"])
    /\ UNCHANGED <<engine, observed, fixtures, event_loop>>

\* line 223, the write of count_of_iterations += 1, and lines 226-231: the
\* 'completed' update
CountWrite(w) ==
    /\ pc[w] = "count_write"
    /\ count_of_iterations' = loc[w].tmp + 1
    /\ run_completed' = Append(run_completed, loc[w].tmp + 1)
    /\ SetLoc(w, [loc[w] EXCEPT !.tmp = 0])
    /\ Goto(w, "sleep")
    /\ UNCHANGED <<is_running, current_workflow, execution_results, thread,
                   execution_order, node_instances, node_data_map, edges, is_setup>>
    /\ UNCHANGED <<calls, ret, solo_run, built_since_load, run_errors, last_call, node_events, last_args, last_update, loop_interval, fixtures, event_loop>>

\* line 240
Sleep(w) ==
    /\ pc[w] = "sleep"
    /\ Goto(w, "while")
    /\ UNCHANGED <<engine, loc, observed, fixtures, event_loop>>

\* lines 242-256: the workflow_error broadcast, then
\* stop_continuous_execution() called by the worker, then return
Except(w) ==
    /\ pc[w] = "except"
    /\ run_errors' = Append(run_errors, [kind |-> loc[w].err, iter |-> loc[w].iter])
    /\ StopFlag(w, "dead")
    /\ UNCHANGED <<current_workflow, execution_results, count_of_iterations, thread,
                   execution_order, node_instances, node_data_map, edges, is_setup>>
    /\ UNCHANGED <<calls, ret, run_completed, solo_run, built_since_load, last_call, node_events, last_args, last_update, loop_interval, fixtures, event_loop>>

\* ------------------------------------------------------------------- Next
Next ==
    \/ \E g \in WorkflowIds : LoadWorkflow(g)
    \/ StartContinuousExecution
    \/ StopContinuousExecution
    \/ \E g \in WorkflowIds : ExecuteWorkflowOnce(g)
    \/ \E n \in UpdateIds, p \in UpdateNames, v \in UpdateValues :
          UpdateNodeParameter(n, p, v)
    \/ \E i \in Intervals : SetLoopInterval(i)
    \/ \E t \in Threads : JoinReturn(t)
    \/ \E t \in Threads : JoinTimeout(t)
    \/ \E t \in Threads : SetupBegin(t)
    \/ \E t \in Threads : SetupSort(t)
    \/ \E t \in Threads : SetupInstantiate(t)
    \/ \E t \in Threads : PassBegin(t)
    \/ \E t \in Threads : PassOrder(t)
    \/ \E t \in Threads : NodeExec(t)
    \/ \E w \in Workers : LoopIter(w)
    \/ \E w \in Workers : CountWrite(w)
    \/ \E w \in Workers : Sleep(w)
    \/ \E w \in Workers : Except(w)

Spec == Init /\ [][Next]_vars

\* The steps of worker w. A started thread keeps being scheduled; a node
\* call returns or raises, time.sleep(loop_interval) ends, and
\* join(timeout=5.0) returns when the joined thread has ended or after five
\* seconds.
WorkerStep(w) ==
    \/ SetupBegin(w) \/ SetupSort(w) \/ SetupInstantiate(w)
    \/ PassOrder(w) \/ NodeExec(w)
    \/ LoopIter(w) \/ CountWrite(w) \/ Sleep(w) \/ Except(w)
    \/ JoinReturn(w) \/ JoinTimeout(w)

\* The scheduler on its own: load of the valid workflow, start and stop on
\* the caller's thread, and the workers.
LoopWorkflows ==
    {g \in WorkflowIds :
        /\ StructurallyValid(Workflows[g])
        /\ \A i \in DOMAIN Workflows[g].nodes : Workflows[g].nodes[i].type \in Registry
        /\ \E iter \in SetOrders(NodeIdsOf(Workflows[g].nodes)) :
              TopologicalSort(Workflows[g].nodes, Workflows[g].edges, iter).ok}
NextLoop ==
    \/ \E g \in LoopWorkflows : LoadWorkflow(g)
    \/ StartContinuousExecution
    \/ StopContinuousExecution
    \/ JoinReturn(Caller)
    \/ JoinTimeout(Caller)
    \/ \E w \in Workers : WorkerStep(w)

\* The fairness assumed is weaker than fairness for each thread: as long as
\* some worker can take a step, some worker takes one.
SpecFair == Init /\ [][NextLoop]_vars /\ WF_vars(\E w \in Workers : WorkerStep(w))

\* ------------------------------------------- _topological_sort on its own
SortIds == {"a", "b", "c"}
SortEdgeSet == {Edge(s, "output", t, "value") : s \in SortIds, t \in SortIds}
EdgeLists(E, n) == UNION {[1..k -> E] : k \in 0..n}

\* The node list with the ids S.
NodeList(S) ==
    LET o == CHOOSE f \in SetOrders(S) : TRUE
    IN  [i \in DOMAIN o |-> Node(o[i], "InputNode", 0, EmptyMap, EmptyMap)]

\* Any node list over SortIds, any edge list over them (edges to ids outside
\* the node list included), any iteration order of the id set.
InitSort ==
    /\ EngineInit
    /\ \E S \in (SUBSET SortIds) \ {{}} :
         \E es \in EdgeLists(SortEdgeSet, MaxSortEdges) :
           \E iter \in SetOrders(S) :
             sort_in = [used |-> TRUE, nodes |-> NodeList(S), edges |-> es, iter |-> iter]
    /\ sort_out = NoFixture
    /\ prep_in = NoFixture
    /\ prep_out = NoFixture
    /\ pass_in = NoFixture
    /\ trip_out = NoFixture
    /\ DiscoveryIdle
    /\ event_loop = "running"

\* line 151: self._topological_sort(nodes, edges)
CallTopologicalSort ==
    /\ sort_in.used
    /\ ~sort_out.used
    /\ LET r == TopologicalSort(sort_in.nodes, sort_in.edges, sort_in.iter)
       IN  sort_out' = [used |-> TRUE, ok |-> r.ok, order |-> r.order,
                        remaining |-> r.remaining]
    /\ UNCHANGED <<engine, threads, observed, sort_in, prep_in, prep_out, pass_in,
                   trip_out, services, event_loop>>

\* The wire shape {nodes, edges}: json.dump writes each list in order and
\* each node and edge dict with its keys; json.load builds new lists and new
\* dicts from them (user/repository.py). wf is the identity of the parsed
\* workflow object.
WireNode(n) == <<n.id, n.type, n.parameters, n.required>>
WireEdge(e) == <<e.source, e.sourceHandle, e.target, e.targetHandle>>
Serialize(nodes, es) ==
    [nodes |-> [i \in DOMAIN nodes |-> WireNode(nodes[i])],
     edges |-> [i \in DOMAIN es |-> WireEdge(es[i])]]
Parse(wire, wf) ==
    [nodes |-> [i \in DOMAIN wire.nodes |->
                   Node(wire.nodes[i][1], wire.nodes[i][2], wf,
                        wire.nodes[i][3], wire.nodes[i][4])],
     edges |-> [i \in DOMAIN wire.edges |->
                   Edge(wire.edges[i][1], wire.edges[i][2],
                        wire.edges[i][3], wire.edges[i][4])]]

\* line 151 on the graph read back from the wire shape. The set node_ids of
\* line 299 is built anew; its iteration order (line 316) follows the string
\* hashes of the interpreter process that compiles the copy.
CompileRoundTrip ==
    /\ sort_in.used
    /\ ~trip_out.used
    /\ LET copy == Parse(Serialize(sort_in.nodes, sort_in.edges), 9)
       IN  \E iter \in SetOrders(NodeIdsOf(copy.nodes)) :
              LET r == TopologicalSort(copy.nodes, copy.edges, iter)
              IN  trip_out' = [used |-> TRUE, ok |-> r.ok, order |-> r.order,
                               remaining |-> r.remaining]
    /\ UNCHANGED <<engine, threads, observed, sort_in, sort_out, prep_in, prep_out,
                   pass_in, services, event_loop>>

NextSort == CallTopologicalSort \/ CompileRoundTrip

SpecSort == InitSort /\ [][NextSort]_vars

\* ------------------------------ _prepare_node_inputs_optimized on its own
PrepSources == {"s1", "s2"}
PrepValues == {Scalar(1), TupleV(<<>>), TupleV(<<4>>), TupleV(<<1, 2>>),
               DictV([NoDict EXCEPT !["k"] = 3])}
PrepEdgeSet ==
    {Edge(s, sh, "n", th) : s \in PrepSources,
                            sh \in {"output", "output-1", "output-x", "k"},
                            th \in {"p", "q"}}
      \cup {Edge("s1", "output", "m", "p")}
PrepResults == UNION {[D -> PrepValues] : D \in SUBSET PrepSources}
PrepParams == {EmptyMap, [h \in {"p"} |-> Scalar(5)]}
PrepRequired ==
    {EmptyMap,
     [h \in {"p", "q"} |-> WithDefault(Scalar(9))],
     [h \in {"p", "q"} |-> IF h = "q" THEN WithDefault(Scalar(9)) ELSE NoDefault]}
\* The input_types of nodeInfo: each required map with no optional inputs,
\* and one that declares p in both maps and q as optional only.
PrepSchemas ==
    {[required |-> req, optional |-> EmptyMap] : req \in PrepRequired}
      \cup {[required |-> [h \in {"p"} |-> WithDefault(Scalar(9))],
             optional |-> [h \in {"p", "q"} |-> WithDefault(Scalar(8))]]}

InitInputs ==
    /\ EngineInit
    /\ \E es \in EdgeLists(PrepEdgeSet, MaxPrepEdges) :
         \E res \in PrepResults :
           \E params \in PrepParams :
             \E sch \in PrepSchemas :
               prep_in = [used |-> TRUE, node_id |-> "n",
                          node_data |-> [Node("n", "InputNode", 0, params, sch.required)
                                           EXCEPT !.optional = sch.optional],
                          node_results |-> res, edges |-> es]
    /\ prep_out = NoFixture
    /\ sort_in = NoFixture
    /\ sort_out = NoFixture
    /\ pass_in = NoFixture
    /\ trip_out = NoFixture
    /\ DiscoveryIdle
    /\ event_loop = "running"

\* line 348: self._prepare_node_inputs_optimized(node_id, node_data, node_results)
CallPrepareNodeInputs ==
    /\ prep_in.used
    /\ ~prep_out.used
    /\ LET r == PrepareNodeInputs(prep_in.node_id, prep_in.node_data,
                                  prep_in.node_results, prep_in.edges)
       IN  prep_out' = [used |-> TRUE, raised |-> r.raised, inputs |-> r.inputs]
    /\ UNCHANGED <<engine, threads, observed, sort_in, sort_out, prep_in, pass_in,
                   trip_out, services, event_loop>>

NextInputs == CallPrepareNodeInputs

SpecInputs == InitInputs /\ [][NextInputs]_vars

\* ------------------------------------- execute_workflow_once on its own
\* The placements of the first node of a one-shot graph: an InputNode with
\* or without its value, a DataRecordNode with or without a token (its
\* hf_token input declares the empty string as default), or a
\* CreateDatasetNode with dataset_config and robot, with or without resume,
\* placed by a client that sends no nodeInfo.
PassSources ==
    {Node("a", "InputNode", 5, pa, ValueInput) : pa \in {EmptyMap, ValueParam(1)}}
      \cup {Node("a", "DataRecordNode", 5, pa,
                 [h \in {"hf_token"} |-> WithDefault(Scalar(0))]) :
               pa \in {EmptyMap, [h \in {"hf_token"} |-> Scalar(3)]}}
      \cup {Node("a", "CreateDatasetNode", 5, [h \in ks |-> Scalar(2)], EmptyMap) :
               ks \in {{"dataset_config", "robot"},
                       {"dataset_config", "robot", "resume"}}}

\* The edges a one-shot graph may carry after a -> b: none, one from an id
\* that is not a node, or one to an id that is not a node.
StrayEdges ==
    {<<>>, << Edge("ghost", "output", "b", "value") >>,
           << Edge("a", "output", "ghost", "value") >>}

\* The graphs of a one-shot run: a -> b on the handle "value"; b of any
\* registered class with or without a parameter on the connected handle.
PassGraphs ==
    {[id |-> 5, hasEdges |-> TRUE,
      nodes |-> << a, Node("b", cb, 5, pb, ValueInput) >>,
      edges |-> << Edge("a", "output", "b", "value") >> \o stray] :
        a \in PassSources,
        cb \in Registry,
        pb \in {EmptyMap, ValueParam(5)},
        stray \in StrayEdges}

\* An engine built with a websocket manager, called from one thread.
InitPass ==
    /\ EngineInit
    /\ \E wf \in PassGraphs, l \in Loops :
         /\ pass_in = [used |-> TRUE, workflow |-> wf, loop |-> l]
         /\ event_loop = l
    /\ sort_in = NoFixture /\ sort_out = NoFixture
    /\ prep_in = NoFixture /\ prep_out = NoFixture
    /\ trip_out = NoFixture
    /\ DiscoveryIdle

NextPass ==
    \/ ExecuteOnce(pass_in.workflow)
    \/ SetupBegin(Caller)
    \/ SetupSort(Caller)
    \/ SetupInstantiate(Caller)
    \/ PassBegin(Caller)
    \/ NodeExec(Caller)

SpecPass == InitPass /\ [][NextPass]_vars

\* ------------------------------------------------ log_message, get_status
\* line 445: the cap on execution_logs
LogCap == 100
\* line 554: how many entries get_status returns
StatusLogs == 10

\* s[-k:]
LastN(s, k) == IF Len(s) <= k THEN s ELSE SubSeq(s, Len(s) - k + 1, Len(s))

\* What logging leaves alone.
LogFrame ==
    UNCHANGED <<engine, threads, observed, sort_in, sort_out, prep_in, prep_out,
                pass_in, trip_out, discovery, event_loop>>

LogGoto(t, where, slice) ==
    log_calls' = [log_calls EXCEPT ![t] = [pc |-> where, slice |-> slice]]

\* line 442: self.execution_logs.append(log_entry)
LogAppend(t) ==
    /\ log_calls[t].pc = "idle"
    /\ logged < MaxLogs
    /\ logged' = logged + 1
    /\ execution_logs' = Append(execution_logs, logged + 1)
    /\ LogGoto(t, "appended", <<>>)
    /\ UNCHANGED status_logs
    /\ LogFrame

\* line 445: if len(self.execution_logs) > 100
LogLen(t) ==
    /\ log_calls[t].pc = "appended"
    /\ LogGoto(t, IF Len(execution_logs) > LogCap THEN "trim" ELSE "print", <<>>)
    /\ UNCHANGED <<execution_logs, logged, status_logs>>
    /\ LogFrame

\* line 446, right-hand side: self.execution_logs[-100:] builds a new list
LogSlice(t) ==
    /\ log_calls[t].pc = "trim"
    /\ LogGoto(t, "store", LastN(execution_logs, LogCap))
    /\ UNCHANGED <<execution_logs, logged, status_logs>>
    /\ LogFrame

\* line 446, the assignment: the attribute is bound to the new list
LogStore(t) ==
    /\ log_calls[t].pc = "store"
    /\ execution_logs' = log_calls[t].slice
    /\ LogGoto(t, "print", <<>>)
    /\ UNCHANGED <<logged, status_logs>>
    /\ LogFrame

\* lines 449-450: the entry is printed and log_message returns
LogPrint(t) ==
    /\ log_calls[t].pc = "print"
    /\ LogGoto(t, "idle", <<>>)
    /\ UNCHANGED <<execution_logs, logged, status_logs>>
    /\ LogFrame

\* lines 545-556: get_status, on the caller's thread
GetStatus ==
    /\ log_calls[Caller].pc = "idle"
    /\ status_logs' = LastN(execution_logs, StatusLogs)
    /\ UNCHANGED <<execution_logs, log_calls, logged>>
    /\ LogFrame

LogStep(t) == LogAppend(t) \/ LogLen(t) \/ LogSlice(t) \/ LogStore(t) \/ LogPrint(t)

NextLog ==
    \/ \E t \in LogThreads : LogStep(t)
    \/ GetStatus

SpecLog == Init /\ [][NextLog]_vars

\* ---------------------------------------------------------- discover_nodes
\* Three of the modules of custom_nodes/, by file name without ".py".
DiscoverFiles == {"basic_nodes", "lerobot_nodes", "record_nodes"}

\* The names of NODE_CLASS_MAPPINGS of a module, in the order of the dict
\* (basic_nodes.py 1331-1348, lerobot_nodes.py 930-938, record_nodes.py
\* 616-622; two names of each).
Exports(m) ==
    CASE m = "basic_nodes" -> <<"InputNode", "DisplayNode">>
      [] m = "lerobot_nodes" -> <<"ConnectLeRobotNode", "CreateDatasetNode">>
      [] OTHER -> <<"CreateDatasetNode", "RecordEpisodesNode">>

\* The class object a module binds to an exported name: each module defines
\* its own.
ClassOf(m, name) == [module |-> m, class |-> name]

\* lines 47-48 with register_node (line 20): self.nodes[name] = node_class
\* for every item of the mappings
RegisterAll(reg, m) ==
    [n \in DOMAIN reg \cup Range(Exports(m)) |->
        IF n \in Range(Exports(m)) THEN ClassOf(m, n) ELSE reg[n]]

\* The registry is created (line 98), os.listdir has returned the file names
\* in some order, and some of the modules raise when executed.
InitDiscover ==
    /\ EngineInit
    /\ sort_in = NoFixture /\ sort_out = NoFixture
    /\ prep_in = NoFixture /\ prep_out = NoFixture
    /\ pass_in = NoFixture
    /\ trip_out = NoFixture
    /\ event_loop = "running"
    /\ listing \in SetOrders(DiscoverFiles)
    /\ broken \in SUBSET DiscoverFiles

\* lines 30-32 and _load_module (34-58): one file of the listing
LoadModule ==
    /\ listing # <<>>
    /\ listing' = Tail(listing)
    /\ IF Head(listing) \in broken
       THEN UNCHANGED <<registry_nodes, loaded>>
       ELSE /\ registry_nodes' = RegisterAll(registry_nodes, Head(listing))
            /\ loaded' = loaded \cup {Head(listing)}
    /\ UNCHANGED <<engine, threads, observed, sort_in, sort_out, prep_in, prep_out,
                   pass_in, trip_out, logging, broken, event_loop>>

NextDiscover == LoadModule

SpecDiscover == InitDiscover /\ [][NextDiscover]_vars

\* ------------------------------------------------------------ graph theory
\* The directed graph of a node list and an edge list: the edges between
\* listed nodes.
GraphEdges(nodes, es) ==
    {<<es[i].source, es[i].target>> : i \in DOMAIN es}
        \cap (NodeIdsOf(nodes) \X NodeIdsOf(nodes))

\* A path of 1..k edges leads from u to v.
RECURSIVE PathWithin(_, _, _, _)
PathWithin(u, v, E, k) ==
    /\ k > 0
    /\ \/ <<u, v>> \in E
       \/ \E e \in E : e[1] = u /\ PathWithin(e[2], v, E, k - 1)

OnCycle(n, nodes, es) ==
    PathWithin(n, n, GraphEdges(nodes, es), Cardinality(NodeIdsOf(nodes)))

ReachableFrom(m, n, nodes, es) ==
    m = n \/ PathWithin(m, n, GraphEdges(nodes, es), Cardinality(NodeIdsOf(nodes)))

Cyclic(nodes, es) == \E n \in NodeIdsOf(nodes) : OnCycle(n, nodes, es)

\* The graph compiles and every node type resolves.
Buildable(wf) ==
    /\ ~Cyclic(wf.nodes, wf.edges)
    /\ \A i \in DOMAIN wf.nodes : wf.nodes[i].type \in Registry

Position(order, n) == CHOOSE i \in DOMAIN order : order[i] = n

\* ================================================================== claims
\* The pass or the sleep of an iteration of the while loop of _execution_loop.
InLoopBody(w) == pc[w] \in {"node", "count_write", "sleep"}

\* C1: at every moment at most one worker is inside the body of the
\* continuous loop, over any sequence of start / stop / start calls,
\* including a stop whose join timed out.
C1_AtMostOneWorkerInLoopBody ==
    Cardinality({w \in Workers : InLoopBody(w)}) <= 1

\* C2: when the worker of a continuous run handles the first error of the
\* run, raised by a node during the iteration it announced as k, the
\* 'completed' updates published in the run are exactly 1..k-1, this
\* workflow_error is the only one, count_of_iterations is k-1 and is_running
\* is false.
C2_NodeErrorEndsRun ==
    [][\A w \in Workers :
          (/\ w = thread
           /\ pc[w] = "except"
           /\ pc'[w] # "except"
           /\ loc[w].err = "node"
           /\ run_errors = <<>>)
          => /\ run_completed' = [i \in 1..(loc[w].iter - 1) |-> i]
             /\ Len(run_errors') = 1
             /\ count_of_iterations' = loc[w].iter - 1
             /\ ~is_running']_vars

\* C3: whenever the continuous worker has terminated, is_running is false.
C3_TerminatedWorkerMeansIdle ==
    (thread # 0 /\ pc[thread] = "dead") => ~is_running

\* C4: for an acyclic graph _topological_sort returns an order that holds
\* every node id exactly once and puts the source of every edge between
\* listed nodes before its target.
C4_AcyclicSorted ==
    (sort_out.used /\ ~Cyclic(sort_in.nodes, sort_in.edges)) =>
        /\ sort_out.ok
        /\ Len(sort_out.order) = Cardinality(NodeIdsOf(sort_in.nodes))
        /\ Range(sort_out.order) = NodeIdsOf(sort_in.nodes)
        /\ \A e \in GraphEdges(sort_in.nodes, sort_in.edges) :
              Position(sort_out.order, e[1]) < Position(sort_out.order, e[2])

\* An acyclic graph of three nodes and at least two edges between them was sorted.
C4_Witness ==
    /\ sort_out.used
    /\ ~Cyclic(sort_in.nodes, sort_in.edges)
    /\ Cardinality(NodeIdsOf(sort_in.nodes)) = 3
    /\ Cardinality(GraphEdges(sort_in.nodes, sort_in.edges)) >= 2
    /\ sort_out.ok

\* C5 as stated: for a graph with a cycle the sort fails, and every node named
\* in the error's remaining set lies on a directed cycle.
C5_RemainingOnCycle ==
    (sort_out.used /\ Cyclic(sort_in.nodes, sort_in.edges)) =>
        /\ ~sort_out.ok
        /\ \A n \in sort_out.remaining : OnCycle(n, sort_in.nodes, sort_in.edges)

\* C5 amended: for a graph with a cycle the sort fails, and the remaining set
\* is exactly the nodes that lie on a cycle or are reachable from a node on
\* a cycle.
C5_RemainingDownstreamOfCycle ==
    (sort_out.used /\ Cyclic(sort_in.nodes, sort_in.edges)) =>
        /\ ~sort_out.ok
        /\ sort_out.remaining =
              {n \in NodeIdsOf(sort_in.nodes) :
                  \E m \in NodeIdsOf(sort_in.nodes) :
                      /\ OnCycle(m, sort_in.nodes, sort_in.edges)
                      /\ ReachableFrom(m, n, sort_in.nodes, sort_in.edges)}

\* The sort failed and named a node that lies on no cycle.
C5_Witness ==
    /\ sort_out.used
    /\ ~sort_out.ok
    /\ \E n \in sort_out.remaining : ~OnCycle(n, sort_in.nodes, sort_in.edges)

\* C6: no node entry function is ever invoked for a loaded graph that has a
\* cycle or a node of an unresolvable type.
C6_NoCallForUnbuildableGraph ==
    last_call.wf # 0 => Buildable(Workflows[last_call.wf])

\* C7 as stated: load_workflow returns false for a graph with a cycle or a
\* node of an unregistered type (what it accepted is buildable).
C7_LoadRejectsUnbuildable ==
    ret = "load_true" => Buildable(current_workflow)

\* C7 amended: load_workflow returns true exactly when the graph has a
\* non-empty node list and an edge list, then holds the graph with the plan
\* invalidated; otherwise it returns false and keeps the loaded workflow.
C7_LoadChecksStructureOnly ==
    [][\A g \in WorkflowIds :
          LoadWorkflow(g) =>
             IF StructurallyValid(Workflows[g])
             THEN ret' = "load_true" /\ current_workflow' = Workflows[g] /\ ~is_setup'
             ELSE ret' = "load_false" /\ UNCHANGED <<current_workflow, is_setup>>]_vars

\* load_workflow accepted a graph that cannot be built.
C7_Witness ==
    ret = "load_true" /\ ~Buildable(current_workflow)

\* C8: a start_continuous_execution call made while is_running holds changes
\* neither is_running, count_of_iterations, the worker thread, the loaded
\* workflow nor any thread: no second worker is launched.
C8_StartWhileRunningIsNoOp ==
    [][(/\ is_running
        /\ calls' = calls + 1
        /\ ret' \in {"started", "already_running", "no_workflow"})
       => /\ ret' = "already_running"
          /\ UNCHANGED <<is_running, count_of_iterations, thread, current_workflow,
                         pc, loc>>]_vars

\* start was called while a worker was in its loop and returned as a no-op.
C8_Witness ==
    /\ ret = "already_running"
    /\ is_running
    /\ thread # 0
    /\ InLoopBody(thread)
    /\ Unborn # {}

\* The cached plan is the one _setup_execution builds from wf.
PlanCompiledFrom(wf) ==
    /\ edges = wf.edges
    /\ node_data_map = NodeDataMap(wf.nodes)
    /\ \E iter \in SetOrders(NodeIdsOf(wf.nodes)) :
          LET r == TopologicalSort(wf.nodes, wf.edges, iter)
          IN  r.ok /\ execution_order = r.order
    /\ DOMAIN node_instances = NodeIdsOf(wf.nodes)
    /\ \A id \in DOMAIN node_instances :
          node_instances[id] = Instance(NodeDataMap(wf.nodes)[id])

\* C9: whenever _is_setup is true, the cached execution order, node data
\* map, edges and node instances were compiled from the currently loaded
\* workflow.
C9_ReadyPlanIsCurrent ==
    is_setup => PlanCompiledFrom(current_workflow)

\* C10: when the parameter map of the node has key p and an edge targets
\* handle p of the node, the resolved argument for p is the parameter value,
\* whatever the order of the edge list.
C10_ParameterWins ==
    (prep_out.used /\ ~prep_out.raised) =>
        \A p \in DOMAIN prep_in.node_data.parameters :
            (\E i \in DOMAIN prep_in.edges :
                /\ prep_in.edges[i].target = prep_in.node_id
                /\ prep_in.edges[i].targetHandle = p)
            => /\ p \in DOMAIN prep_out.inputs
               /\ prep_out.inputs[p] = prep_in.node_data.parameters[p]

\* Two edges from two sources with results feed handle p, which also has a
\* parameter, and the resolver returned.
C10_Witness ==
    /\ prep_out.used
    /\ ~prep_out.raised
    /\ "p" \in DOMAIN prep_in.node_data.parameters
    /\ Len(prep_in.edges) = 2
    /\ \A i \in DOMAIN prep_in.edges :
          /\ prep_in.edges[i].target = prep_in.node_id
          /\ prep_in.edges[i].targetHandle = "p"
          /\ prep_in.edges[i].source \in DOMAIN prep_in.node_results
    /\ prep_in.edges[1].source # prep_in.edges[2].source
    /\ prep_out.inputs["p"] = Scalar(5)

\* ------------------------------------------------ what a single pass does
\* The step in which thread t runs one turn of the node loop.
Turn(t) == pc[t] = "node" /\ (pc'[t] # pc[t] \/ loc'[t] # loc[t])
TurnNode(t) == loc[t].order[loc[t].idx]

\* The turn of b in a pass in which a has produced a scalar output, with b's
\* entry function called.
TurnOfB ==
    /\ Turn(Caller)
    /\ TurnNode(Caller) = "b"
    /\ "a" \in DOMAIN loc[Caller].results
    /\ loc[Caller].results["a"].k = "scalar"
    /\ "b" \in DOMAIN node_instances
    /\ last_call' = node_instances["b"]

\* The output of each node of the plan in a pass without failures, None
\* included, each node fed from the outputs before it.
RECURSIVE PassOutputs(_, _)
PassOutputs(order, outs) ==
    IF order = <<>> THEN outs
    ELSE LET n == Head(order)
             stored == [m \in {x \in DOMAIN outs : outs[x] # NoneV} |-> outs[m]]
             prep == PrepareNodeInputs(n, node_data_map[n], stored, edges)
             out == EntryFunction(node_instances[n].class, prep.inputs)
         IN  PassOutputs(Tail(order), Put(outs, n, out.result))

C12_EveryPlanNodeHasEntry ==
    (pass_in.used /\ ret = "success")
      => \A n \in Range(execution_order) : n \in DOMAIN execution_results

\* C12 amended: after a successful pass the result map has an entry exactly
\* for the nodes of the plan whose output is not None, holding that output;
\* a node that returns None (or a pair whose first element is None) has no
\* entry.
C12_EntriesForNonNullOutputs ==
    (pass_in.used /\ ret = "success")
      => LET outs == PassOutputs(execution_order, EmptyMap)
         IN  /\ DOMAIN execution_results =
                    {n \in Range(execution_order) : outs[n] # NoneV}
             /\ \A n \in DOMAIN execution_results : execution_results[n] = outs[n]

\* A successful pass whose DisplayNode b left no entry next to a's.
C12_Witness ==
    /\ pass_in.used
    /\ ret = "success"
    /\ node_instances["b"].class = "DisplayNode"
    /\ DOMAIN execution_results = {"a"}

\* The entry function of the node of t's turn raises on the arguments the
\* resolver gives it.
EntryRaises(t) ==
    /\ TurnNode(t) \in DOMAIN node_instances \cap DOMAIN node_data_map
    /\ LET prep == PrepareNodeInputs(TurnNode(t), node_data_map[TurnNode(t)],
                                     loc[t].results, edges)
       IN  /\ ~prep.raised
           /\ EntryFunction(node_instances[TurnNode(t)].class, prep.inputs).raised

\* The exception of t's pass has reached the caller of the pass: the except
\* clause of execute_workflow_once, or the except clause of the loop.
Propagated(t, kind) ==
    IF t = Caller
    THEN /\ pc'[t] = "idle" /\ ret' = "failed"
         /\ run_errors' = Append(run_errors, [kind |-> kind, iter |-> 0])
    ELSE pc'[t] = "except" /\ loc'[t].err = kind

C14_PartialResultsRetained ==
    [][\A t \in Threads :
          (Turn(t) /\ pc'[t] \notin {"node", "count_write"} /\ ret' # "success")
            => \A n \in DOMAIN loc[t].results :
                  /\ n \in DOMAIN execution_results'
                  /\ execution_results'[n] = loc[t].results[n]]_vars

\* The threads that are inside a pass, a plan build, the loop or a stop.
Active(t) == pc[t] \notin {"idle", "unborn", "dead"}

SomeResults == UNION {[D -> {Scalar(1), Scalar(2)}] : D \in SUBSET {"a", "b"}}

\* C16: a call of update_node_parameter made while no plan is ready, or with
\* a node id the plan does not hold, returns false (it does not raise) and
\* changes nothing: no parameter map, no field of the plan, no run state, no
\* thread.
C16_RejectedUpdateChangesNothing ==
    [][\A n \in UpdateIds, v \in UpdateValues :
          (UpdateNodeParameter(n, "value", v)
             /\ (~is_setup \/ n \notin DOMAIN node_data_map))
          => (ret' = "update_false" /\ UNCHANGED <<engine, threads>>
                /\ UNCHANGED <<run_completed, run_errors, last_call, node_events, last_args>>)]_vars

\* A rejected update while a plan is ready and a worker is running it.
C16_Witness ==
    /\ ret = "update_false"
    /\ is_setup /\ is_running
    /\ node_data_map # EmptyMap
    /\ \E w \in Workers : pc[w] = "node"

\* C17: a call of update_node_parameter for a node of the ready plan returns
\* true and keeps the plan: _is_setup stays true, the order, the instances
\* and the edges are unchanged, and the next resolution of the node's inputs
\* yields the new value for the updated handle.
C17_AcceptedUpdateKeepsPlan ==
    [][\A n \in UpdateIds, v \in UpdateValues :
          (UpdateNodeParameter(n, "value", v)
             /\ is_setup /\ n \in DOMAIN node_data_map)
          => /\ ret' = "update_true"
             /\ is_setup'
             /\ UNCHANGED <<execution_order, node_instances, edges>>
             /\ DOMAIN node_data_map' = DOMAIN node_data_map
             /\ \A r \in SomeResults :
                   LET prep == PrepareNodeInputs(n, node_data_map'[n], r, edges')
                   IN  ~prep.raised /\ prep.inputs["value"] = v]_vars

\* An accepted update whose value a later pass has fed to the node.
C17_Witness ==
    /\ ret = "update_true"
    /\ is_setup
    /\ "a" \in DOMAIN execution_results
    /\ execution_results["a"] \in UpdateValues

\* C18: once is_running is false, every worker that was launched has
\* eventually exited, unless the engine is started again; a worker that finds
\* the flag cleared at the loop test begins no iteration and exits; and no
\* thread joins itself, so the worker that calls stop from its except clause
\* ends too.
C18_WorkerExitsAfterStop ==
    /\ ~is_running ~> (is_running \/ \A w \in Workers : pc[w] \in {"unborn", "dead"})
    /\ [][\A w \in Workers :
             (pc[w] = "while" /\ ~is_running /\ pc'[w] # pc[w]) => pc'[w] = "dead"]_vars
    /\ [](\A t \in Threads : pc[t] = "joining" => loc[t].join # t)
    /\ [][\A w \in Workers :
             (pc[w] = "except" /\ thread = w /\ pc'[w] # pc[w]) => pc'[w] = "dead"]_vars

\* A worker that has ended after a stop while the engine is idle.
C18_Witness ==
    /\ ~is_running
    /\ ret = "stopped"
    /\ thread # 0
    /\ Dead(thread)
    /\ run_completed # <<>>

\* C19: a worker that is inside a pass when is_running is false still runs
\* the turn of the node it is at: it calls the node, and unless the turn
\* fails it goes on to the next node of the order, or to the end of the pass
\* after the last one.
C19_StopDoesNotPreemptPass ==
    [][\A w \in Workers :
          (Turn(w) /\ ~is_running)
            => \/ pc'[w] = "except"
               \/ /\ last_call' = node_instances[TurnNode(w)]
                  /\ IF loc[w].idx < Len(loc[w].order)
                     THEN /\ pc'[w] = "node"
                          /\ loc'[w].order = loc[w].order
                          /\ loc'[w].idx = loc[w].idx + 1
                     ELSE pc'[w] = "count_write"]_vars

\* A stop that has cleared the flag and waits in join while the worker is
\* between the two nodes of its pass.
C19_Witness ==
    /\ ~is_running
    /\ ret = "stopped"
    /\ pc[Caller] = "joining"
    /\ pc[loc[Caller].join] = "node"
    /\ loc[loc[Caller].join].idx = 2

\* C20: set_loop_interval called with zero or a negative value raises and
\* leaves loop_interval as it was, whether or not the engine is running.
C20_BadIntervalRejected ==
    [][\A i \in Intervals :
          (SetLoopInterval(i) /\ i <= 0)
          => (ret' = "interval_raised" /\ UNCHANGED engine)]_vars

\* A rejected interval after an accepted one, with the engine running.
C20_Witness ==
    /\ ret = "interval_raised"
    /\ is_running
    /\ loop_interval = 2

\* ------------------------------------------------ inputs nobody supplies
\* An edge of the list targets handle h of the resolved node from a source
\* that has a result in this pass (line 390).
EdgeOnHandle(h) ==
    \E i \in DOMAIN prep_in.edges :
        /\ prep_in.edges[i].target = prep_in.node_id
        /\ prep_in.edges[i].targetHandle = h
        /\ prep_in.edges[i].source \in DOMAIN prep_in.node_results

\* Handle h of the resolved node has a schema default (required or optional).
HasDefault(h) ==
    \/ h \in DOMAIN prep_in.node_data.required /\ prep_in.node_data.required[h].has
    \/ h \in DOMAIN prep_in.node_data.optional /\ prep_in.node_data.optional[h].has

\* An edge into the resolved node reads a tuple result through an indexed
\* handle whose suffix is not a number (the ValueError of line 397).
MalformedIndexedEdge ==
    \E i \in DOMAIN prep_in.edges :
        /\ prep_in.edges[i].target = prep_in.node_id
        /\ prep_in.edges[i].source \in DOMAIN prep_in.node_results
        /\ prep_in.node_results[prep_in.edges[i].source].k = "tuple"
        /\ prep_in.edges[i].sourceHandle \in IndexedHandles
        /\ HandleIndex(prep_in.edges[i].sourceHandle) < 0

\* C21: an input name that no edge supplies (no edge from a source with a
\* result targets it), that has no parameter and no schema default is absent from the resolved argument map, and the resolver
\* raises only for a malformed indexed source handle of an edge, never for a
\* missing input.
C21_UnsuppliedInputAbsent ==
    prep_out.used =>
        /\ prep_out.raised => MalformedIndexedEdge
        /\ ~prep_out.raised =>
              \A h \in {"p", "q"} :
                 (/\ ~EdgeOnHandle(h)
                  /\ h \notin DOMAIN prep_in.node_data.parameters
                  /\ ~HasDefault(h))
                 => h \notin DOMAIN prep_out.inputs

\* The resolver returned for a node that declares p as required without a
\* default and has neither an edge nor a parameter for it, while q was filled
\* from its default: p is not in the argument map.
C21_Witness ==
    /\ prep_out.used
    /\ ~prep_out.raised
    /\ "p" \in DOMAIN prep_in.node_data.required
    /\ ~prep_in.node_data.required["p"].has
    /\ ~EdgeOnHandle("p")
    /\ prep_in.node_data.parameters = EmptyMap
    /\ DOMAIN prep_out.inputs = {"q"}

\* --------------------------------------------------- the order of a graph
\* C22: compiling a graph and compiling the copy read back from its wire
\* shape give the same outcome and the identical execution order.
C22_RoundTripSameOrder ==
    (sort_out.used /\ trip_out.used) =>
        /\ trip_out.ok = sort_out.ok
        /\ trip_out.order = sort_out.order

\* ------------------------------------------ a class without its function
\* The graph of the one-shot run holds a node whose class lacks the entry
\* function named by FUNCTION().
HasHollowNode ==
    /\ pass_in.used
    /\ \E i \in DOMAIN pass_in.workflow.nodes :
          ~ProvidesFunction(pass_in.workflow.nodes[i].type)

\* C23: a graph with a node whose class does not provide the entry function
\* named by FUNCTION() is rejected while the plan is built: the plan never
\* becomes ready and no node of the graph is invoked.
C23_MissingFunctionRejectedAtBuild ==
    HasHollowNode => (~is_setup /\ last_call = NoCall)

\* ------------------------------------------------------ the iteration count
\* The step in which start_continuous_execution launches a worker.
LaunchStep == calls' = calls + 1 /\ ret' = "started"

\* The step in which worker w writes the count after a successful pass and
\* publishes the 'completed' update.
CountStep(w) == pc[w] = "count_write" /\ pc'[w] = "sleep"

\* Worker w is inside an iteration of the loop: between the 'executing'
\* update and the write of the count or the except clause.
InIteration(w) ==
    \/ pc[w] \in {"node", "pass_order", "count_write"}
    \/ pc[w] \in {"setup", "setup_sort", "setup_inst"} /\ loc[w].ret = "pass"

\* C24: in a run whose worker is the only one alive since the start,
\* count_of_iterations is the number of successful passes of the run: start
\* sets it to 0, each successful pass adds exactly 1, nothing else changes it
\* (a failed pass does not), the 'completed' updates of the run carry the
\* numbers 1..count_of_iterations, and each carries the number of the
\* 'executing' update of its iteration.
C24_CountIsSuccessfulPasses ==
    /\ [][LaunchStep => count_of_iterations' = 0]_vars
    /\ [](solo_run => run_completed = [i \in 1..count_of_iterations |-> i])
    /\ [](solo_run /\ thread # 0 /\ InIteration(thread)
            => loc[thread].iter = count_of_iterations + 1)
    /\ [][solo_run /\ thread # 0 /\ CountStep(thread)
            => /\ count_of_iterations' = count_of_iterations + 1
               /\ run_completed' = Append(run_completed, loc[thread].iter)]_vars
    /\ [][solo_run /\ count_of_iterations' # count_of_iterations
            => LaunchStep \/ (thread # 0 /\ CountStep(thread))]_vars

\* A restarted run with a single worker: the second worker, launched after
\* the first had ended, has completed a pass and a later pass of the run has
\* failed, with the count at the number of successful passes.
C24_Witness ==
    /\ solo_run
    /\ thread = 2
    /\ count_of_iterations = 1
    /\ run_completed = <<1>>
    /\ Len(run_errors) = 1
    /\ run_errors[1].iter = 2

\* --------------------------------------- an update during a running pass
\* The plan's parameter map of node n.
PlanParameters(n) == node_data_map[n].parameters

\* The step in which a thread rebuilds the node data map (line 154).
RebuildStep == \E t \in Threads : pc[t] = "setup_sort" /\ pc'[t] # "setup_sort"

\* The step of an update_node_parameter call that returned true.
AcceptedUpdateStep == calls' = calls + 1 /\ ret' = "update_true"

\* C25: update_node_parameter does not wait for a running pass. An update
\* that returns true while a pass is in progress writes the plan's parameter
\* at once and moves no thread; every later turn of the target node is
\* called with the parameter the plan holds at that turn (the same pass when
\* the node's turn is still to come, the next pass otherwise); and the
\* parameter stays until another update or a rebuild of the plan.
C25_UpdateSeenByNextResolution ==
    /\ [][\A n \in UpdateIds, v \in UpdateValues :
             (UpdateNodeParameter(n, "value", v) /\ ret' = "update_true")
               => /\ PlanParameters(n)'["value"] = v
                  /\ UNCHANGED <<pc, execution_order, is_setup>>
                  /\ \A t \in Threads : loc'[t].idx = loc[t].idx]_vars
    /\ [][\A t \in Threads :
             (/\ Turn(t)
              /\ TurnNode(t) \in DOMAIN node_instances \cap DOMAIN node_data_map
              /\ "value" \in DOMAIN PlanParameters(TurnNode(t))
              /\ last_call' = node_instances[TurnNode(t)])
               => last_args'["value"] = PlanParameters(TurnNode(t))["value"]]_vars
    /\ [][\A n \in DOMAIN node_data_map :
             (n \notin DOMAIN node_data_map'
                \/ PlanParameters(n)' # PlanParameters(n))
               => (RebuildStep \/ AcceptedUpdateStep)]_vars

\* An update accepted in the middle of a worker's pass: a was called with the
\* old value in this pass, the plan already holds the new one, and b's turn
\* is still to come.
C25_Witness ==
    /\ ret = "update_true"
    /\ \E w \in Workers :
          /\ pc[w] = "node"
          /\ loc[w].idx = 2
          /\ "a" \in DOMAIN loc[w].results
          /\ loc[w].results["a"] = Scalar(1)
    /\ PlanParameters("a")["value"] = Scalar(7)

\* ------------------------------------------------------ the instance pool
\* The step in which thread t starts a build that empties the pool (line 157).
BuildStart(t) == pc[t] = "setup_sort" /\ pc'[t] = "setup_inst"

\* The step in which thread t enters the node loop of a pass (line 265).
PassStart(t) == pc[t] # "node" /\ pc'[t] = "node"

\* C26: between two consecutive load_workflow calls each node id gets at
\* most one instance (no build starts while the pool holds an instance
\* constructed since the latest load), and every pass that starts runs on
\* instances constructed after the latest load.
C26_OneInstancePerLoad ==
    /\ [][\A t \in Threads : BuildStart(t) => built_since_load = {}]_vars
    /\ [][\A t \in Threads :
             PassStart(t) => Range(execution_order) \subseteq built_since_load]_vars

CompletedTurn(t) ==
    /\ Turn(t)
    /\ Len(node_events') = 2
    /\ node_events'[2].state = "completed"

\* The result map of thread t's pass after a completed turn: the map the
\* pass goes on with, or the map it stores at its end.
ResultsAfter(t) ==
    IF loc[t].idx = Len(loc[t].order) THEN execution_results' ELSE loc'[t].results

RejectedByValidation(t) ==
    /\ Turn(t)
    /\ TurnNode(t) \in DOMAIN node_instances
    /\ TurnNode(t) \in DOMAIN node_data_map
    /\ LET prep == PrepareNodeInputs(TurnNode(t), node_data_map[TurnNode(t)],
                                     loc[t].results, edges)
       IN  /\ ~prep.raised
           /\ ValidateInputs(node_instances[TurnNode(t)].class, prep.inputs)

\* In every turn whose resolved inputs fail validation the entry function of
\* the node is called, with exactly those inputs; and when the turn ends with
\* 'completed' the pass goes on as after any completed turn.
C29_ValidationIsAdvisory ==
    [][\A t \in Threads :
         RejectedByValidation(t) =>
           /\ last_call' = node_instances[TurnNode(t)]
           /\ last_args' = PrepareNodeInputs(TurnNode(t), node_data_map[TurnNode(t)],
                                             loc[t].results, edges).inputs
           /\ CompletedTurn(t) =>
                 IF loc[t].idx < Len(loc[t].order)
                 THEN pc'[t] = "node" /\ loc'[t].idx = loc[t].idx + 1
                 ELSE t = Caller => ret' = "success"]_vars

\* A one-shot pass that succeeded although validate_inputs rejected the
\* inputs of a: a CreateDatasetNode placed without "resume", a required
\* input for which create_dataset has a default of its own.
C29_Witness ==
    /\ pass_in.used
    /\ ret = "success"
    /\ node_instances["a"].class = "CreateDatasetNode"
    /\ ValidateInputs("CreateDatasetNode", node_data_map["a"].parameters)
    /\ execution_results["a"] = TupleV(<<-1>>)

\* ---------------------------------------------------------------------------
\* C30: an edge whose source or target id is not in the node set is
\* discarded by _topological_sort and ignored by input resolution: the graph
\* still compiles, every node appears in the order, and the pass runs without
\* an error caused by that edge.
\* ---------------------------------------------------------------------------

\* Edge e has an endpoint outside ids.
Stray(e, ids) == e.source \notin ids \/ e.target \notin ids

\* The edge list es without its stray edges.
WithoutStray(es, ids) ==
    LET Keep(e) == ~Stray(e, ids) IN SelectSeq(es, Keep)

\* The graph of the one-shot run carries a stray edge.
HasStrayEdge ==
    /\ pass_in.used
    /\ \E i \in DOMAIN pass_in.workflow.edges :
         Stray(pass_in.workflow.edges[i], NodeIdsOf(pass_in.workflow.nodes))

\* The step in which thread t sorts the graph.
SortStep(t) == pc[t] = "setup_sort" /\ pc'[t] # "setup_sort"

\* In a one-shot run of a graph with a stray edge: the sort succeeds with
\* every node in the order, the very order the graph without the stray edge
\* gets; and every turn resolves the inputs the graph without the stray edge
\* would, so that the entry function is called with them.
C30_StrayEdgesIgnored ==
    /\ [][(HasStrayEdge /\ SortStep(Caller)) =>
            LET nodes == pass_in.workflow.nodes
                ids == NodeIdsOf(nodes)
            IN  /\ pc'[Caller] = "setup_inst"
                /\ Range(execution_order') = ids
                /\ Len(execution_order') = Cardinality(ids)
                /\ \E iter \in SetOrders(ids) :
                      TopologicalSort(nodes, WithoutStray(pass_in.workflow.edges, ids),
                                      iter).order = execution_order']_vars
    /\ [][(HasStrayEdge /\ Turn(Caller) /\ TurnNode(Caller) \in DOMAIN node_data_map) =>
            LET n == TurnNode(Caller)
                ids == DOMAIN node_data_map
                prep == PrepareNodeInputs(n, node_data_map[n], loc[Caller].results,
                                          edges)
                clean == PrepareNodeInputs(n, node_data_map[n], loc[Caller].results,
                                           WithoutStray(edges, ids))
            IN  /\ prep = clean
                /\ ~prep.raised
                /\ n \in DOMAIN node_instances
                      => last_call' = node_instances[n] /\ last_args' = clean.inputs]_vars

\* A one-shot run of a -> b with an edge from "ghost" into b's handle after
\* it: the run succeeded and b was called with the output of a.
C30_Witness ==
    /\ HasStrayEdge
    /\ \E i \in DOMAIN edges : edges[i].source = "ghost" /\ edges[i].target = "b"
    /\ ret = "success"
    /\ execution_order = <<"a", "b">>
    /\ last_call.node = "b"
    /\ last_args = ValueParam(1)
    /\ execution_results = [n \in {"a", "b"} |-> Scalar(1)]

\* ---------------------------------------------------------------------------
\* C31: when the upstream result is a tuple, a source handle 'output-N'
\* selects element N; otherwise a 1-element tuple yields its sole element;
\* otherwise the first element is used; the selected value is assigned under
\* the edge's target handle.
\* ---------------------------------------------------------------------------

\* Edge i is the only edge into the resolved node on handle h, its source has
\* a tuple result, and h has no parameter.
SoleTupleEdge(h, i) ==
    /\ prep_in.edges[i].target = prep_in.node_id
    /\ prep_in.edges[i].targetHandle = h
    /\ \A j \in DOMAIN prep_in.edges :
          (prep_in.edges[j].target = prep_in.node_id
             /\ prep_in.edges[j].targetHandle = h) => j = i
    /\ prep_in.edges[i].source \in DOMAIN prep_in.node_results
    /\ prep_in.node_results[prep_in.edges[i].source].k = "tuple"
    /\ h \notin DOMAIN prep_in.node_data.parameters

\* Handle h of the resolved arguments holds value v.
Resolved(h, v) == h \in DOMAIN prep_out.inputs /\ prep_out.inputs[h] = v

\* As stated: element N for 'output-N' when the tuple has one, else the first
\* element of the tuple. Violated by the empty tuple, which has no first
\* element.
C31_TupleSelection ==
    (prep_out.used /\ ~prep_out.raised) =>
        \A h \in {"p", "q"} : \A i \in DOMAIN prep_in.edges :
            SoleTupleEdge(h, i) =>
                LET r == prep_in.node_results[prep_in.edges[i].source]
                    sh == prep_in.edges[i].sourceHandle
                IN  IF sh \in IndexedHandles
                    THEN HandleIndex(sh) < Len(r.t)
                           => Resolved(h, Elem(r.t[HandleIndex(sh) + 1]))
                    ELSE Len(r.t) > 0 /\ Resolved(h, Elem(r.t[1]))

\* C31, amended: as above, and an empty tuple read through a handle that is
\* not indexed assigns None under the target handle.
C31_TupleSelectionOrNone ==
    (prep_out.used /\ ~prep_out.raised) =>
        \A h \in {"p", "q"} : \A i \in DOMAIN prep_in.edges :
            SoleTupleEdge(h, i) =>
                LET r == prep_in.node_results[prep_in.edges[i].source]
                    sh == prep_in.edges[i].sourceHandle
                IN  IF sh \in IndexedHandles
                    THEN HandleIndex(sh) < Len(r.t)
                           => Resolved(h, Elem(r.t[HandleIndex(sh) + 1]))
                    ELSE IF Len(r.t) = 0
                         THEN Resolved(h, NoneV)
                         ELSE Resolved(h, Elem(r.t[1]))

\* The resolver returned for two edges: 'output-1' of the pair (1, 2) into p,
\* which got 2, and 'output' of the empty tuple into q, which got None.
C31_Witness ==
    /\ prep_out.used /\ ~prep_out.raised
    /\ prep_in.node_data.parameters = EmptyMap
    /\ prep_in.node_results = [x \in {"s1", "s2"} |->
                                 IF x = "s1" THEN TupleV(<<1, 2>>) ELSE TupleV(<<>>)]
    /\ prep_in.edges = << Edge("s1", "output-1", "n", "p"),
                          Edge("s2", "output", "n", "q") >>
    /\ Resolved("p", Scalar(2))
    /\ Resolved("q", NoneV)

\* ---------------------------------------------------------------------------
\* C32: schema defaults only fill gaps: after resolution an input holds its
\* declared default if and only if no edge and no parameter supplied it and a
\* default is declared; a default never overrides an edge-supplied or
\* parameter-supplied value.
\* ---------------------------------------------------------------------------

\* What the edge loop of the resolved node assigns (lines 383-410).
FromEdges ==
    EdgeInputs(prep_in.edges, prep_in.node_id, prep_in.node_results,
               [raised |-> FALSE, inputs |-> EmptyMap]).inputs

\* The default declared for handle h: the required map is read first.
DeclaredDefault(h) ==
    IF h \in DOMAIN prep_in.node_data.required /\ prep_in.node_data.required[h].has
    THEN prep_in.node_data.required[h].val
    ELSE prep_in.node_data.optional[h].val

\* For every handle: a parameter is resolved to the parameter; else a value
\* an edge assigned is resolved to that value; else a declared default is
\* resolved to the default; else the handle is absent.
C32_DefaultsOnlyFillGaps ==
    (prep_out.used /\ ~prep_out.raised) =>
        /\ DOMAIN prep_out.inputs \subseteq {"p", "q"}
        /\ \A h \in {"p", "q"} :
              IF h \in DOMAIN prep_in.node_data.parameters
              THEN Resolved(h, prep_in.node_data.parameters[h])
              ELSE IF h \in DOMAIN FromEdges
                   THEN Resolved(h, FromEdges[h])
                   ELSE IF HasDefault(h)
                        THEN Resolved(h, DeclaredDefault(h))
                        ELSE h \notin DOMAIN prep_out.inputs

\* The resolver returned for a node whose schema declares defaults for p
\* (9 as required, 8 as optional) and q (8 as optional), with an edge that
\* supplied 1 for p: p kept 1, q was filled with 8.
C32_Witness ==
    /\ prep_out.used /\ ~prep_out.raised
    /\ prep_in.node_data.parameters = EmptyMap
    /\ DOMAIN prep_in.node_data.optional = {"p", "q"}
    /\ FromEdges = [h \in {"p"} |-> Scalar(1)]
    /\ Resolved("p", Scalar(1))
    /\ Resolved("q", Scalar(8))

\* ---------------------------------------------------------------------------
\* C40: when an edge's source handle is 'output-N' and the upstream tuple has
\* N or fewer elements, edge resolution assigns nothing for the target handle
\* and raises no exception; the input is then supplied only by a parameter or
\* a schema default, and otherwise stays absent.
\* ---------------------------------------------------------------------------

\* Edge i reads a tuple of the resolved node's sources through 'output-N'
\* with N at or past the tuple's length.
PastTheEnd(i) ==
    /\ prep_in.edges[i].target = prep_in.node_id
    /\ prep_in.edges[i].source \in DOMAIN prep_in.node_results
    /\ prep_in.node_results[prep_in.edges[i].source].k = "tuple"
    /\ prep_in.edges[i].sourceHandle \in IndexedHandles
    /\ HandleIndex(prep_in.edges[i].sourceHandle) >=
          Len(prep_in.node_results[prep_in.edges[i].source].t)

\* Every edge into the resolved node is past the end of its tuple.
OnlyPastTheEnd ==
    \A i \in DOMAIN prep_in.edges :
        prep_in.edges[i].target = prep_in.node_id => PastTheEnd(i)

\* When every edge into the node is past the end of its tuple the resolver
\* does not raise and returns what the parameters and the defaults alone
\* give; and a handle whose only edges are past the end holds its parameter,
\* else its default, else is absent.
C40_IndexPastEndAssignsNothing ==
    prep_out.used =>
        /\ OnlyPastTheEnd =>
              /\ ~prep_out.raised
              /\ prep_out.inputs = PrepareNodeInputs(prep_in.node_id, prep_in.node_data,
                                                     prep_in.node_results, <<>>).inputs
        /\ ~prep_out.raised =>
              \A h \in {"p", "q"} :
                 (/\ \E i \in DOMAIN prep_in.edges :
                         PastTheEnd(i) /\ prep_in.edges[i].targetHandle = h
                  /\ \A i \in DOMAIN prep_in.edges :
                         (prep_in.edges[i].target = prep_in.node_id
                            /\ prep_in.edges[i].targetHandle = h) => PastTheEnd(i))
                 => IF h \in DOMAIN prep_in.node_data.parameters
                    THEN Resolved(h, prep_in.node_data.parameters[h])
                    ELSE IF HasDefault(h)
                         THEN Resolved(h, DeclaredDefault(h))
                         ELSE h \notin DOMAIN prep_out.inputs

\* The resolver returned for 'output-1' of the 1-tuple (4) into p and
\* 'output-1' of the empty tuple into q, p without parameter or default and q
\* with a default: p is absent, q holds the default.
C40_Witness ==
    /\ prep_out.used /\ ~prep_out.raised
    /\ prep_in.edges = << Edge("s1", "output-1", "n", "p"),
                          Edge("s2", "output-1", "n", "q") >>
    /\ prep_in.node_results = [x \in {"s1", "s2"} |->
                                 IF x = "s1" THEN TupleV(<<4>>) ELSE TupleV(<<>>)]
    /\ prep_in.node_data.parameters = EmptyMap
    /\ ~HasDefault("p")
    /\ prep_out.inputs = [h \in {"q"} |-> Scalar(9)]

\* ---------------------------------------------------------------------------
\* C33: execution_logs never holds more than 100 entries after a log_message
\* call, entries beyond the cap are dropped oldest-first (the most recently
\* logged entry is always retained), and get_status returns at most the 10
\* most recent entries, including when log_message is called from the worker
\* and the caller's thread concurrently.
\* ---------------------------------------------------------------------------

\* No thread is inside log_message.
LogQuiet == \A t \in LogThreads : log_calls[t].pc = "idle"

\* Every entry ever logged, oldest first.
AllLogged == [i \in 1..logged |-> i]

\* The step in which thread t returns from log_message.
LogReturn(t) == log_calls[t].pc = "print" /\ log_calls'[t].pc = "idle"

\* When a log_message call returns the list holds at most 100 entries; with
\* no call under way the list is the last 100 of all entries logged; the
\* newest entry is in the list at every moment; get_status returned at most
\* 10 entries.
C33_LogBoundedNewestKept ==
    /\ [][\A t \in LogThreads : LogReturn(t) => Len(execution_logs') <= LogCap]_vars
    /\ [](LogQuiet => execution_logs = LastN(AllLogged, LogCap))
    /\ [](logged > 0 => logged \in Range(execution_logs))
    /\ [](Len(status_logs) <= StatusLogs)

\* ---------------------------------------------------------------------------
\* C34: discover_nodes is non-fatal under partial failure: a module that
\* raises while loading is skipped, and every node class exported by each
\* module that loads successfully is registered afterwards, regardless of the
\* order in which the modules are visited.
\* ---------------------------------------------------------------------------

\* discover_nodes has visited every file of a listing.
Discovered == listing = <<>> /\ loaded \cup broken = DiscoverFiles

\* After discovery exactly the modules that did not raise are loaded, and
\* the registry holds, under every name a loaded module exports, the class
\* that module exports.
C34_EveryExportRegistered ==
    Discovered =>
        /\ loaded = DiscoverFiles \ broken
        /\ \A m \in loaded : \A i \in DOMAIN Exports(m) :
              /\ Exports(m)[i] \in DOMAIN registry_nodes
              /\ registry_nodes[Exports(m)[i]] = ClassOf(m, Exports(m)[i])

\* ---------------------------------------------------------------------------
\* C35: no one-shot pass (execute_workflow_once) runs while a continuous
\* worker is still executing a pass: the two never execute nodes or rebuild
\* the shared plan concurrently, including after a stop whose bounded join
\* returned before the worker exited.
\* ---------------------------------------------------------------------------

\* Thread t is rebuilding the shared plan or executing the nodes of a pass.
BuildingOrExecuting(t) == pc[t] \in {"setup_sort", "setup_inst", "node"}

\* The caller's thread is never building or executing while a worker is.
C35_OneShotExcludesWorkerPass ==
    \A w \in Workers : ~(BuildingOrExecuting(Caller) /\ BuildingOrExecuting(w))

\* ---------------------------------------------------------------------------
\* C36: every pass uses a plan derived from a single graph: the execution
\* order, edges, node data and node instances consulted during one pass all
\* come from the same load_workflow, even when load_workflow is called while
\* the loop is running (the new graph takes effect only at a pass boundary).
\* ---------------------------------------------------------------------------

\* The pass of thread t iterates an order of graph g, and the edges, the
\* node data and the node instances the engine holds are those of graph g.
PlanFromGraph(t, g) ==
    /\ edges = Workflows[g].edges
    /\ DOMAIN node_data_map = NodeIdsOf(Workflows[g].nodes)
    /\ \A id \in DOMAIN node_data_map : node_data_map[id].wf = g
    /\ \A id \in DOMAIN node_instances : node_instances[id].wf = g
    /\ \E iter \in SetOrders(NodeIdsOf(Workflows[g].nodes)) :
          LET r == TopologicalSort(Workflows[g].nodes, Workflows[g].edges, iter)
          IN  r.ok /\ loc[t].order = r.order

\* Whenever a thread is in the node loop of a pass, what the pass consults
\* comes from one graph.
C36_PassPlanFromOneGraph ==
    \A t \in Threads :
        pc[t] = "node" => \E g \in DOMAIN Workflows : PlanFromGraph(t, g)

\* ---------------------------------------------------------------- C37
\* An event of worker w's run: a turn of its node loop publishes node_state
\* events (lines 269-283), the end of a pass publishes the 'completed'
\* continuous_update (lines 226-231).
PublishesRunEvent(w) == Turn(w) \/ CountStep(w)

\* stop_continuous_execution cleared the flag and returned to its caller: the
\* continuous_stopped broadcast of lines 115-121 was handed to the running
\* loop by the handler, or sent on the spot by a worker (line 255).
StopReturned == ~is_running /\ CallerIdle

\* C37: continuous_stopped is the last event of its run: once the stop call
\* that published it has returned, no worker publishes a node_state or a
\* continuous_update event any more.
C37_StoppedIsLastEvent ==
    [][\A w \in Workers : StopReturned => ~PublishesRunEvent(w)]_vars

\* ---------------------------------------------------------------- C38
\* A load_workflow call that returned False (lines 82-84).
FailedLoadStep == calls' = calls + 1 /\ ret' = "load_false"

\* C38: a load_workflow call that fails the structural validation returns
\* False and leaves the loaded workflow, the compiled plan, _is_setup and the
\* run state (flag, thread, iteration count, results, every thread's
\* position) as they were.
C38_FailedLoadChangesNothing ==
    [][FailedLoadStep =>
          /\ UNCHANGED <<current_workflow, execution_order, node_instances,
                         node_data_map, edges, is_setup>>
          /\ UNCHANGED <<is_running, thread, count_of_iterations,
                         execution_results, loop_interval, pc, loc>>]_vars

\* A load was refused while a worker is running the compiled plan of the
\* workflow loaded before.
C38_Witness ==
    /\ ret = "load_false"
    /\ is_running /\ is_setup
    /\ current_workflow = Workflows[1]
    /\ execution_order # <<>>
    /\ \E w \in Workers : pc[w] = "node"

\* ---------------------------------------------------------------- C39
\* The node dict new differs from old in parameter p, now v, and in nothing
\* else (line 532).
OnlyParameterChanged(old, new, p, v) ==
    /\ DOMAIN new.parameters = DOMAIN old.parameters \cup {p}
    /\ new.parameters[p] = v
    /\ \A q \in DOMAIN old.parameters \ {p} : new.parameters[q] = old.parameters[q]
    /\ [new EXCEPT !.parameters = old.parameters] = old

\* C39: an update_node_parameter(n, p, v) call that returns true changes
\* parameter p of node n and nothing else: the other parameters of n, the
\* other nodes of the plan and of the loaded workflow, the edges, the
\* execution order, count_of_iterations and is_running stay as they were.
C39_UpdateChangesOneParameter ==
    [][\A n \in UpdateIds, p \in UpdateNames, v \in UpdateValues :
          (UpdateNodeParameter(n, p, v) /\ ret' = "update_true") =>
             /\ DOMAIN node_data_map' = DOMAIN node_data_map
             /\ OnlyParameterChanged(node_data_map[n], node_data_map'[n], p, v)
             /\ \A m \in DOMAIN node_data_map \ {n} :
                   node_data_map'[m] = node_data_map[m]
             /\ DOMAIN current_workflow'.nodes = DOMAIN current_workflow.nodes
             /\ \A i \in DOMAIN current_workflow.nodes :
                   IF SameNode(current_workflow.nodes[i], node_data_map[n])
                   THEN OnlyParameterChanged(current_workflow.nodes[i],
                                             current_workflow'.nodes[i], p, v)
                   ELSE current_workflow'.nodes[i] = current_workflow.nodes[i]
             /\ current_workflow'.edges = current_workflow.edges
             /\ UNCHANGED <<edges, execution_order, node_instances, is_setup,
                            count_of_iterations, is_running, thread,
                            execution_results, pc>>]_vars

\* An accepted update of "gain" on node a, which kept its parameter "value",
\* in a plan that holds node b as well, while a worker runs.
C39_Witness ==
    /\ ret = "update_true"
    /\ is_running
    /\ DOMAIN node_data_map = {"a", "b"}
    /\ DOMAIN PlanParameters("a") = {"value", "gain"}
    /\ PlanParameters("a")["value"] = Scalar(1)
    /\ PlanParameters("a")["gain"] = Scalar(7)


====
